---------------------------- MODULE Spec2Model ----------------------------
(***************************************************************************)
(* A model of the layout and repagination engine of                       *)
(* tiptap-extension-pagination:                                            *)
(*   - the table flow splitter (src/src/utils/table.ts),                   *)
(*   - the page builder and position mapper (src/src/utils/pagination.ts), *)
(*   - the boundary edit key handlers (src/src/PaginationExtension.ts).    *)
(* Each part has its own specification over the shared variables.          *)
(***************************************************************************)
EXTENDS Integers, Sequences, FiniteSets, TLC

VARIABLES
    now,          \* the wall clock read by Date.now(), in milliseconds
    sPc,          \* splitter: "idle", "call", "ret", "done" or "overflow"
    sVariant,     \* which of the two TableHandler classes of table.ts runs
    sInput,       \* the arguments of the top-level splitTableAtHeight call
    sArgs,        \* the arguments of the invocation about to run
    sStack,       \* the suspended callers, innermost last
    sRet,         \* the TableSplitResult being returned
    tableGroups,  \* TableHandler.tableGroups: groupId -> TableGroup
    doc,          \* state.doc: the top-level nodes of the document
    passes,       \* repagination passes run so far (capped)
    contentNodes, \* the NodePosArray of the latest pass
    oldToNewPosMap, \* the CursorMap of the latest pass
    oldCursorPos, \* selection.from when the latest pass began
    newCursorPos, \* mapCursorPosition's result in the latest pass
    passDoc,      \* state.doc as the latest pass found it
    closedPages,  \* per page of the latest pass: currentHeight and the
                  \* content height in force when the page was closed
    selection,    \* state.selection: [from, to]
    keyCount,     \* key presses handled so far (capped)
    lastCall,     \* the latest key handler call: its inputs and outcome
    heap,         \* the TableMeasurement objects alive, by address
    measurementCache, \* TableHandler.measurementCache: key -> address
    hTables,      \* the caller's array of tables (a group of fragments)
    hMeasurements, \* the caller's array of measurements, as addresses
    hGroup,       \* the groupId whose TableGroup holds the hTables array
    hArg,         \* index in hTables of the table being split, 0 if none
    hCalls,       \* TableHandler calls made so far (capped)
    hLast         \* the latest TableHandler call: what went in and came out

splitVars == <<now, sPc, sVariant, sInput, sArgs, sStack, sRet, tableGroups>>

pageVars ==
    <<doc, passes, contentNodes, oldToNewPosMap, oldCursorPos, newCursorPos,
      passDoc, closedPages>>

keyVars == <<selection, keyCount, lastCall>>

handlerVars ==
    <<heap, measurementCache, hTables, hMeasurements, hGroup, hArg, hCalls,
      hLast>>

vars == <<splitVars, pageVars, keyVars, handlerVars>>

---------------------------------------------------------------------------
(* Bounds of the model. *)

MaxRows == 3
MaxRowHeight == 2
MaxPageHeight == 3
MaxHeaderRows == 2
MaxClock == 2
MaxNodes == 4
MaxPasses == 2
MaxKeyPages == 2
MaxPageKids == 2
MaxKeys == 1
MaxGroup == 3
MaxCalls == 3
MaxHandlerRows == 2

\* The calls in a row of a caller that only measures and rebalances.
MaxRebalanceCalls == 4

\* Deeper than any terminating recursion, which drops a row per nested call.
StackLimit == MaxRows + 2

---------------------------------------------------------------------------
(* Arrays as JavaScript has them. *)

Min(a, b) == IF a < b THEN a ELSE b

Max(a, b) == IF a > b THEN a ELSE b

\* Array.prototype.slice(from, to) for 0 <= from, 0 <= to.
Slice(s, from, to) == SubSeq(s, from + 1, Min(to, Len(s)))

\* Array.prototype.slice(from).
SliceFrom(s, from) == SubSeq(s, from + 1, Len(s))

RECURSIVE SumSeq(_)
\* reduce((a, b) => a + b, 0)
SumSeq(s) == IF s = <<>> THEN 0 ELSE Head(s) + SumSeq(Tail(s))

RECURSIVE Flatten(_)
Flatten(ss) == IF ss = <<>> THEN <<>> ELSE Head(ss) \o Flatten(Tail(ss))

\* The running sums of measureTable.
Cumulative(hs) == [i \in 1..Len(hs) |-> SumSeq(SubSeq(hs, 1, i))]


---------------------------------------------------------------------------
(* TableHandler: tables, measurements and the splitter (table.ts).         *)
(* A table is its rows (row identities, in order) and the two attributes   *)
(* the handler reads: headerRows (0 when unset) and groupId (-1 when       *)
(* unset, else the timestamp of "table-group-<timestamp>").                *)

Table(rows, headerRows, groupId) ==
    [rows |-> rows, headerRows |-> headerRows, groupId |-> groupId]

\* Node.nodeSize of a table whose rows each hold one cell with one empty
\* paragraph.
TableNodeSize(t) == 2 + 6 * Len(t.rows)

\* node.attrs.headerRows || 1 in the first class, || 0 in the second.
getHeaderRowCount(node, variant) ==
    IF node.headerRows # 0 THEN node.headerRows
    ELSE IF variant = 1 THEN 1 ELSE 0

\* The measurement measureTable builds from the measured row heights.
Measurement(rowHeights, headerRowCount) ==
    [rowHeights |-> rowHeights,
     headerRowCount |-> headerRowCount,
     totalHeight |-> IF rowHeights = <<>> THEN 0
                     ELSE Cumulative(rowHeights)[Len(rowHeights)],
     breakPoints |-> <<>>,
     cumulativeHeights |-> Cumulative(rowHeights)]

RECURSIVE SplitLoop(_, _, _, _, _)
\* for (let i = headerRowCount; i < rowHeights.length; i++) { ... }
SplitLoop(rowHeights, i, currentHeight, splitIndex, availableHeight) ==
    IF i >= Len(rowHeights)
    THEN [splitIndex |-> splitIndex, currentHeight |-> currentHeight]
    ELSE IF currentHeight + rowHeights[i + 1] > availableHeight
    THEN [splitIndex |-> splitIndex, currentHeight |-> currentHeight]
    ELSE SplitLoop(rowHeights, i + 1, currentHeight + rowHeights[i + 1],
                   i + 1, availableHeight)

\* FindSplitPoint that lets a fragment run one unit over its budget.
FindSplitPointLoose(measurement, headerRowCount, availableHeight) ==
    SplitLoop(measurement.rowHeights, headerRowCount,
              SumSeq(Slice(measurement.rowHeights, 0, headerRowCount)),
              headerRowCount, availableHeight + 1)

\* "Find split point for current page".
FindSplitPoint(measurement, headerRowCount, availableHeight) ==
    SplitLoop(measurement.rowHeights, headerRowCount,
              SumSeq(Slice(measurement.rowHeights, 0, headerRowCount)),
              headerRowCount, availableHeight)

\* "Create first table with header rows".
FirstTable(node, groupId, splitIndex) ==
    Table(Slice(node.rows, 0, splitIndex), node.headerRows, groupId)

FirstMeasurement(measurement, splitIndex) ==
    [rowHeights |-> Slice(measurement.rowHeights, 0, splitIndex),
     headerRowCount |-> 0,
     totalHeight |-> SumSeq(Slice(measurement.rowHeights, 0, splitIndex)),
     breakPoints |-> <<>>,
     cumulativeHeights |-> Slice(measurement.cumulativeHeights, 0, splitIndex)]

\* RemainingTable with the row at the split point left out.
RemainingTableDropsRow(node, groupId, splitIndex) ==
    Table(SliceFrom(node.rows, splitIndex + 1), node.headerRows, groupId)

\* "Handle remaining rows".
RemainingTable(node, groupId, splitIndex) ==
    Table(SliceFrom(node.rows, splitIndex), node.headerRows, groupId)

RemainingMeasurement(measurement, splitIndex, currentHeight) ==
    [measurement EXCEPT
        !.rowHeights = SliceFrom(measurement.rowHeights, splitIndex),
        !.cumulativeHeights =
            [i \in 1..(Len(measurement.cumulativeHeights) - Min(splitIndex, Len(measurement.cumulativeHeights))) |->
                measurement.cumulativeHeights[i + splitIndex] - currentHeight],
        !.totalHeight = SumSeq(SliceFrom(measurement.rowHeights, splitIndex))]

\* "Adjust mapping for the offset caused by the first table".
AdjustMapping(mapping, splitIndex, firstTableSize) ==
    [i \in DOMAIN mapping |->
        [from |-> mapping[i].from + splitIndex,
         to |-> mapping[i].to + firstTableSize]]

\* "Store or update table group": the originalTable of the new group.
OriginalTable(node, groups) ==
    IF node.groupId # -1 /\ node.groupId \in DOMAIN groups
    THEN groups[node.groupId].originalTable
    ELSE node

\* this.tableGroups.set(groupId, { tables, originalTable, positions: [] })
SetTableGroup(groups, groupId, tables, node) ==
    [g \in DOMAIN groups \cup {groupId} |->
        IF g = groupId
        THEN [tables |-> tables,
              originalTable |-> OriginalTable(node, groups),
              positions |-> <<>>]
        ELSE groups[g]]

SplitResult(tables, mapping, groupId, measurements) ==
    [tables |-> tables, mapping |-> mapping, groupId |-> groupId,
     measurements |-> measurements]

NoTable == Table(<<>>, 0, -1)

NoArgs ==
    [node |-> NoTable, availableHeight |-> 0,
     measurement |-> Measurement(<<>>, 0), pageHeight |-> 0]

NoResult == SplitResult(<<>>, <<>>, -1, <<>>)

---------------------------------------------------------------------------
(* splitTableAtHeight, one action per invocation and one per return, so    *)
(* that the clock may advance between the Date.now() reads of nested calls. *)

\* The tables a caller can hand to the splitter, with their measurement.
RowHeightSeqs ==
    UNION {[1..n -> 1..MaxRowHeight] : n \in 1..MaxRows}

\* The end of one invocation that does not recurse: lines 598-609, then the
\* result goes to the caller (or to the suspended invocation below).
FinishCall(node, groupId, tables, mapping, measurements) ==
    /\ tableGroups' = SetTableGroup(tableGroups, groupId, tables, node)
    /\ sRet' = SplitResult(tables, mapping, groupId, measurements)
    /\ sPc' = IF sStack = <<>> THEN "done" ELSE "ret"

\* A caller invokes splitTableAtHeight(tableNode, availableHeight,
\* measurement, schema, pageHeight) on the singleton.
SplitBegin ==
    /\ sPc = "idle"
    /\ \E hs \in RowHeightSeqs, headerRows \in 0..MaxHeaderRows,
          pageHeight \in 1..MaxPageHeight, variant \in {1, 2} :
        \E availableHeight \in 0..pageHeight :
            LET node == Table([i \in 1..Len(hs) |-> i], headerRows, -1)
                args == [node |-> node,
                         availableHeight |-> availableHeight,
                         measurement |->
                             Measurement(hs, getHeaderRowCount(node, variant)),
                         pageHeight |-> pageHeight]
            IN  /\ sVariant' = variant
                /\ sInput' = args
                /\ sArgs' = args
    /\ sPc' = "call"
    /\ UNCHANGED <<now, sStack, sRet, tableGroups, pageVars, keyVars,
                   handlerVars>>

\* The body of one invocation, up to its return or its recursive call.
SplitCall ==
    /\ sPc = "call"
    /\ LET node == sArgs.node
           measurement == sArgs.measurement
           availableHeight == sArgs.availableHeight
           pageHeight == sArgs.pageHeight
           headerRowCount == getHeaderRowCount(node, sVariant)
           groupId == now
           sp == FindSplitPoint(measurement, headerRowCount, availableHeight)
           splitIndex == sp.splitIndex
           firstTable == FirstTable(node, groupId, splitIndex)
           firstM == FirstMeasurement(measurement, splitIndex)
           remainingTable == RemainingTable(node, groupId, splitIndex)
           remainingM ==
               RemainingMeasurement(measurement, splitIndex, sp.currentHeight)
       IN  IF measurement.totalHeight <= availableHeight
           THEN \* "If table fits in available height, return as is"
                /\ sRet' = SplitResult(<<[node EXCEPT !.groupId = groupId]>>,
                                       <<>>, groupId, <<measurement>>)
                /\ sPc' = IF sStack = <<>> THEN "done" ELSE "ret"
                /\ UNCHANGED <<sStack, sArgs, tableGroups>>
           ELSE IF splitIndex < Len(node.rows)
           THEN IF remainingM.totalHeight > pageHeight
                THEN \* "Recursively split remaining table if needed"
                     /\ sStack' = Append(sStack,
                            [node |-> node, groupId |-> groupId,
                             tables |-> <<firstTable>>,
                             measurements |-> <<firstM>>,
                             mapping |-> <<>>,
                             splitIndex |-> splitIndex,
                             firstTableSize |-> TableNodeSize(firstTable)])
                     /\ sArgs' = [node |-> remainingTable,
                                  availableHeight |-> pageHeight,
                                  measurement |-> remainingM,
                                  pageHeight |-> pageHeight]
                     /\ sPc' = IF Len(sStack) + 1 >= StackLimit
                               THEN "overflow" ELSE "call"
                     /\ UNCHANGED <<sRet, tableGroups>>
                ELSE /\ FinishCall(node, groupId,
                                   <<firstTable, remainingTable>>, <<>>,
                                   <<firstM, remainingM>>)
                     /\ UNCHANGED <<sStack, sArgs>>
           ELSE /\ FinishCall(node, groupId, <<firstTable>>, <<>>, <<firstM>>)
                /\ UNCHANGED <<sStack, sArgs>>
    /\ UNCHANGED <<now, sVariant, sInput, pageVars, keyVars, handlerVars>>

\* The recursive call returns into the suspended invocation: lines 582-591,
\* then that invocation ends as any other.
SplitReturn ==
    /\ sPc = "ret"
    /\ sStack # <<>>
    /\ LET f == sStack[Len(sStack)]
           rest == SubSeq(sStack, 1, Len(sStack) - 1)
           tables == f.tables \o sRet.tables
           measurements == f.measurements \o sRet.measurements
           mapping == f.mapping \o
                      AdjustMapping(sRet.mapping, f.splitIndex, f.firstTableSize)
       IN  /\ sStack' = rest
           /\ tableGroups' = SetTableGroup(tableGroups, f.groupId, tables, f.node)
           /\ sRet' = SplitResult(tables, mapping, f.groupId, measurements)
           /\ sPc' = IF rest = <<>> THEN "done" ELSE "ret"
    /\ UNCHANGED <<now, sVariant, sInput, sArgs, pageVars, keyVars,
                   handlerVars>>

\* A millisecond passes.
Tick ==
    /\ now < MaxClock
    /\ now' = now + 1
    /\ UNCHANGED <<sPc, sVariant, sInput, sArgs, sStack, sRet, tableGroups,
                   pageVars, keyVars, handlerVars>>

\* The handler before any call.
SplitIdle ==
    /\ now = 0
    /\ sPc = "idle"
    /\ sVariant = 1
    /\ sInput = NoArgs
    /\ sArgs = NoArgs
    /\ sStack = <<>>
    /\ sRet = NoResult
    /\ tableGroups = <<>>

\* An editor with an empty document and no pass run.
PageIdle ==
    /\ doc = <<>>
    /\ passes = 0
    /\ contentNodes = <<>>
    /\ oldToNewPosMap = <<>>
    /\ oldCursorPos = 0
    /\ newCursorPos = <<>>
    /\ passDoc = <<>>
    /\ closedPages = <<>>

\* No key pressed yet, the cursor at the start.
KeyIdle ==
    /\ selection = [from |-> 0, to |-> 0]
    /\ keyCount = 0
    /\ lastCall = [key |-> "none", hasDispatch |-> FALSE,
                   returned |-> "false", dispatches |-> 0,
                   doc |-> <<>>, selection |-> [from |-> 0, to |-> 0]]

\* A TableHandler that measured nothing, and a caller holding no table.
HandlerIdle ==
    /\ heap = <<>>
    /\ measurementCache = <<>>
    /\ hTables = <<>>
    /\ hMeasurements = <<>>
    /\ hGroup = -1
    /\ hArg = 0
    /\ hCalls = 0
    /\ hLast = [op |-> "none", threw |-> FALSE, tables |-> <<>>,
                measurements |-> <<>>, availableHeight |-> 0,
                pageHeight |-> 0, visits |-> <<>>]

SplitInit == SplitIdle /\ PageIdle /\ KeyIdle /\ HandlerIdle

SplitNext == SplitBegin \/ SplitCall \/ SplitReturn \/ Tick

SpecSplit == SplitInit /\ [][SplitNext]_vars

---------------------------------------------------------------------------
(* Properties of the splitter. *)

FragmentRows == [i \in DOMAIN sRet.tables |-> sRet.tables[i].rows]

FragmentHeights ==
    [i \in DOMAIN sRet.measurements |-> sRet.measurements[i].totalHeight]

\* The budget of fragment i: availableHeight for the first, pageHeight after.
FragmentBudget(i) ==
    IF i = 1 THEN sInput.availableHeight ELSE sInput.pageHeight

\* C1: when splitTableAtHeight has returned, the rows of its fragments,
\* concatenated in order, are exactly the rows of the input table, and the
\* totalHeight of the returned measurements sums to the input's totalHeight.
SplitRoundTrip ==
    sPc = "done" =>
        /\ Flatten(FragmentRows) = sInput.node.rows
        /\ Len(sRet.measurements) = Len(sRet.tables)
        /\ SumSeq(FragmentHeights) = sInput.measurement.totalHeight

\* A split that recursed: three fragments or more came back.
SplitRoundTripWitness == sPc = "done" /\ Len(sRet.tables) >= 3

\* C5: splitTableAtHeight terminates: its recursion never nests without end
\* (a call that does not terminate exhausts the call stack).
SplitTerminates == sPc # "overflow"

\* C9 as stated: every returned fragment is within its budget unless it
\* consists of exactly one row.
FragmentsWithinBudget ==
    sPc = "done" =>
        \A i \in DOMAIN sRet.tables :
            \/ Len(sRet.tables[i].rows) = 1
            \/ sRet.measurements[i].totalHeight <= FragmentBudget(i)

\* C9 amended: every returned fragment is within its budget unless it
\* consists of exactly one row, or of no more rows than the header row count
\* (the leading rows every split step keeps whatever their height).
FragmentsWithinBudgetOrHeader ==
    sPc = "done" =>
        \A i \in DOMAIN sRet.tables :
            \/ Len(sRet.tables[i].rows) = 1
            \/ Len(sRet.tables[i].rows) <= getHeaderRowCount(sInput.node, sVariant)
            \/ sRet.measurements[i].totalHeight <= FragmentBudget(i)

\* A split whose first fragment holds several rows, some beyond the header
\* rows, and is followed by a further fragment.
FragmentsWithinBudgetWitness ==
    /\ sPc = "done"
    /\ Len(sRet.tables) >= 2
    /\ Len(sRet.tables[1].rows) > getHeaderRowCount(sInput.node, sVariant)
    /\ Len(sRet.tables[1].rows) >= 2

\* C10: all fragments of one top-level call carry the groupId of the result.
FragmentsShareGroupId ==
    sPc = "done" =>
        \A i \in DOMAIN sRet.tables : sRet.tables[i].groupId = sRet.groupId

(***************************************************************************)
(* Part 2: the document and the repagination pass (utils/pagination.ts).   *)
(*                                                                         *)
(* A node is a record: type is "page", "paragraph" or "horizontalRule"; id *)
(* tells content nodes apart; text is the characters of a paragraph; kids  *)
(* the children of a page; attrs the page attributes that decide the       *)
(* content height (paperSize, pageMargins; orientation, colour and borders *)
(* stay at their defaults); h the height in pixels that the view's DOM     *)
(* reports for the node.  Lengths are in tenths of a millimetre.           *)
(***************************************************************************)

NoAttrs == [paperSize |-> "", pageMargins |-> ""]

\* constants/paper.ts: DEFAULT_PAPER_SIZE and DEFAULT_PAGE_MARGIN_NAME.
DefaultPageNodeAttributes == [paperSize |-> "A4", pageMargins |-> "normal"]

Paragraph(id, text, h) ==
    [type |-> "paragraph", id |-> id, text |-> text, kids |-> <<>>,
     attrs |-> NoAttrs, h |-> h]

HorizontalRule(id, h) ==
    [type |-> "horizontalRule", id |-> id, text |-> <<>>, kids |-> <<>>,
     attrs |-> NoAttrs, h |-> h]

\* pageType.create(pageNodeAttributes, currentPageContent)
PageNode(pageNodeAttributes, content) ==
    [type |-> "page", id |-> 0, text |-> <<>>, kids |-> content,
     attrs |-> pageNodeAttributes, h |-> 0]

\* utils/page isPageNode
isPageNode(node) == node.type = "page"

\* Node.isTextblock / the paragraph type
isParagraphNode(node) == node.type = "paragraph"

\* Node.nodeSize of a node without children that are pages: a leaf block
\* takes one position, a paragraph its text plus two tokens.
LeafNodeSize(node) ==
    IF node.type = "horizontalRule" THEN 1 ELSE 2 + Len(node.text)

RECURSIVE SumNodeSizes(_)
SumNodeSizes(nodes) ==
    IF nodes = <<>> THEN 0
    ELSE LeafNodeSize(nodes[1]) + SumNodeSizes(Tail(nodes))

\* Node.nodeSize
NodeSize(node) ==
    IF isPageNode(node) THEN 2 + SumNodeSizes(node.kids)
    ELSE LeafNodeSize(node)

RECURSIVE ContentSize(_)
\* Fragment.size of a sequence of nodes (doc.content.size for the document)
ContentSize(nodes) ==
    IF nodes = <<>> THEN 0
    ELSE NodeSize(nodes[1]) + ContentSize(Tail(nodes))

\* constants/paper.ts paperDimensions[paperSize].height
PaperHeight(paperSize) ==
    CASE paperSize = "A9" -> 520
      [] paperSize = "A10" -> 370
      [] OTHER -> 2970

\* constants/paper.ts commonMarginConfigs[name].top (= .bottom)
MarginTop(name) == IF name = "narrow" THEN 127 ELSE 254

\* utils/window mmToPixels at 96 pixels per inch, the argument in tenths of
\* a millimetre.
mmToPixels(tenths) == (tenths * 96) \div 254

\* calculatePageContentPixelDimensions(...).pageContentHeight
pageContentHeight(pageNodeAttributes) ==
    mmToPixels(PaperHeight(pageNodeAttributes.paperSize)
               - (MarginTop(pageNodeAttributes.pageMargins)
                  + MarginTop(pageNodeAttributes.pageMargins)))

\* constants/tiptap MIN_PARAGRAPH_HEIGHT
MIN_PARAGRAPH_HEIGHT == 20

\* The page nodes of the document, in order.
PageNodes(d) == SelectSeq(d, isPageNode)

\* utils/page isPageNumInRange
isPageNumInRange(d, pageNum) == pageNum >= 0 /\ pageNum < Len(PageNodes(d))

\* getPageNodeAttributesByPageNum: the attributes of the page if the page
\* number is valid, the defaults otherwise.
getPageNodeAttributesByPageNum(d, pageNum) ==
    IF isPageNumInRange(d, pageNum) THEN PageNodes(d)[pageNum + 1].attrs
    ELSE DefaultPageNodeAttributes

\* node.forEach((child, childOffset) => ...): the children with the offset
\* of each into the parent's content, plus base.
ForEachEntry(nodes, base) ==
    [i \in 1..Len(nodes) |->
        [node |-> nodes[i],
         pos |-> base + ContentSize(SubSeq(nodes, 1, i - 1))]]

\* collectContentNodes: the children of the pages, and the top-level
\* nodes that are not pages, each with offset + childOffset + 1 or
\* offset + 1.
collectContentNodes(d) ==
    Flatten([i \in 1..Len(d) |->
        LET offset == ContentSize(SubSeq(d, 1, i - 1))
        IN  IF isPageNode(d[i]) THEN ForEachEntry(d[i].kids, offset + 1)
            ELSE <<[node |-> d[i], pos |-> offset + 1]>>])

\* measureNodeHeights: the DOM height, a zero height of a paragraph
\* replaced by the minimum.
measureNodeHeights(entries) ==
    [i \in 1..Len(entries) |->
        IF entries[i].node.h = 0 /\ isParagraphNode(entries[i].node)
        THEN MIN_PARAGRAPH_HEIGHT
        ELSE entries[i].node.h]

\* Map.set
MapSet(m, k, v) ==
    [x \in (DOMAIN m) \cup {k} |-> IF x = k THEN v ELSE m[x]]

\* addPage stamping the default attributes instead of pageNodeAttributes.
addPageDefaultAttributes(pageNodeAttributes, currentPageContent) ==
    PageNode(DefaultPageNodeAttributes, currentPageContent)

\* addPage: the page node that buildNewDocument pushes
addPage(pageNodeAttributes, currentPageContent) ==
    PageNode(pageNodeAttributes, currentPageContent)

\* buildNewDocument's locals before the loop
BuildStart(d) ==
    [pages |-> <<>>,
     pageNodeAttributes |-> getPageNodeAttributesByPageNum(d, 0),
     pageNum |-> 0,
     currentPageContent |-> <<>>,
     currentHeight |-> 0,
     oldToNewPosMap |-> <<>>,
     cumulativeNewDocPos |-> 0,
     closedPages |-> <<>>]

\* What a page had taken when addPage closed it, and what it could hold.
ClosedPage(b) ==
    [currentHeight |-> b.currentHeight,
     pageContentHeight |-> pageContentHeight(b.pageNodeAttributes)]

\* BuildClosePage that carries currentHeight over to the next page.
BuildClosePageKeepsHeight(d, b) ==
    LET pageNode == addPage(b.pageNodeAttributes, b.currentPageContent)
    IN  [b EXCEPT
            !.pages = Append(@, pageNode),
            !.closedPages = Append(@, ClosedPage(b)),
            !.cumulativeNewDocPos = @ + NodeSize(pageNode),
            !.currentPageContent = <<>>,
            !.pageNum = @ + 1,
            !.pageNodeAttributes =
                IF isPageNumInRange(d, b.pageNum + 1)
                THEN getPageNodeAttributesByPageNum(d, b.pageNum + 1)
                ELSE @]

\* The page-closing branch of the loop body
BuildClosePage(d, b) ==
    LET pageNode == addPage(b.pageNodeAttributes, b.currentPageContent)
    IN  [b EXCEPT
            !.pages = Append(@, pageNode),
            !.closedPages = Append(@, ClosedPage(b)),
            !.cumulativeNewDocPos = @ + NodeSize(pageNode),
            !.currentPageContent = <<>>,
            !.currentHeight = 0,
            !.pageNum = @ + 1,
            !.pageNodeAttributes =
                IF isPageNumInRange(d, b.pageNum + 1)
                THEN getPageNodeAttributesByPageNum(d, b.pageNum + 1)
                ELSE @]

\* BuildStep that adds the minimum to every height instead of taking the
\* larger of the two.
BuildStepAddsMinimum(d, b, entry, nodeHeight) ==
    LET b1 == IF /\ b.currentHeight + nodeHeight
                        > pageContentHeight(b.pageNodeAttributes)
                 /\ Len(b.currentPageContent) > 0
              THEN BuildClosePage(d, b)
              ELSE b
        b2 == IF Len(b1.currentPageContent) = 0
              THEN [b1 EXCEPT !.cumulativeNewDocPos = @ + 1]
              ELSE b1
        nodeStartPosInNewDoc ==
            b2.cumulativeNewDocPos + ContentSize(b2.currentPageContent)
    IN  [b2 EXCEPT
            !.oldToNewPosMap = MapSet(@, entry.pos, nodeStartPosInNewDoc),
            !.currentPageContent = Append(@, entry.node),
            !.currentHeight = @ + nodeHeight + MIN_PARAGRAPH_HEIGHT]

\* BuildStep that closes the page when the effective height of the entry,
\* not its measured height, does not fit.
BuildStepTestsEffectiveHeight(d, b, entry, nodeHeight) ==
    LET b1 == IF /\ b.currentHeight + Max(nodeHeight, MIN_PARAGRAPH_HEIGHT)
                        > pageContentHeight(b.pageNodeAttributes)
                 /\ Len(b.currentPageContent) > 0
              THEN BuildClosePage(d, b)
              ELSE b
        b2 == IF Len(b1.currentPageContent) = 0
              THEN [b1 EXCEPT !.cumulativeNewDocPos = @ + 1]
              ELSE b1
        nodeStartPosInNewDoc ==
            b2.cumulativeNewDocPos + ContentSize(b2.currentPageContent)
    IN  [b2 EXCEPT
            !.oldToNewPosMap = MapSet(@, entry.pos, nodeStartPosInNewDoc),
            !.currentPageContent = Append(@, entry.node),
            !.currentHeight = @ + Max(nodeHeight, MIN_PARAGRAPH_HEIGHT)]

\* One iteration of buildNewDocument's loop
BuildStep(d, b, entry, nodeHeight) ==
    LET b1 == IF /\ b.currentHeight + nodeHeight
                        > pageContentHeight(b.pageNodeAttributes)
                 /\ Len(b.currentPageContent) > 0
              THEN BuildClosePage(d, b)
              ELSE b
        b2 == IF Len(b1.currentPageContent) = 0
              THEN [b1 EXCEPT !.cumulativeNewDocPos = @ + 1]
              ELSE b1
        nodeStartPosInNewDoc ==
            b2.cumulativeNewDocPos + ContentSize(b2.currentPageContent)
    IN  [b2 EXCEPT
            !.oldToNewPosMap = MapSet(@, entry.pos, nodeStartPosInNewDoc),
            !.currentPageContent = Append(@, entry.node),
            !.currentHeight = @ + Max(nodeHeight, MIN_PARAGRAPH_HEIGHT)]

RECURSIVE BuildLoop(_, _, _, _, _)
\* buildNewDocument's loop from index i
BuildLoop(d, b, entries, nodeHeights, i) ==
    IF i > Len(entries) THEN b
    ELSE BuildLoop(d, BuildStep(d, b, entries[i], nodeHeights[i]),
                   entries, nodeHeights, i + 1)

\* limitMappedCursorPositions
limitMappedCursorPositions(m, docSize) ==
    [k \in DOMAIN m |-> IF m[k] > docSize THEN docSize ELSE m[k]]

\* buildNewDocument without "Add final page (may not be full)".
buildNewDocumentNoFinalPage(d, entries, nodeHeights) ==
    LET b == BuildLoop(d, BuildStart(d), entries, nodeHeights, 1)
    IN  [newDoc |-> b.pages,
         oldToNewPosMap |->
             limitMappedCursorPositions(b.oldToNewPosMap,
                                        ContentSize(b.pages)),
         closedPages |-> b.closedPages]

\* buildNewDocument
buildNewDocument(d, entries, nodeHeights) ==
    LET b == BuildLoop(d, BuildStart(d), entries, nodeHeights, 1)
        pages == IF Len(b.currentPageContent) > 0
                 THEN Append(b.pages,
                             addPage(b.pageNodeAttributes,
                                     b.currentPageContent))
                 ELSE b.pages
        docSize == ContentSize(pages)
    IN  [newDoc |-> pages,
         oldToNewPosMap |-> limitMappedCursorPositions(b.oldToNewPosMap,
                                                       docSize),
         closedPages |-> IF Len(b.currentPageContent) > 0
                         THEN Append(b.closedPages, ClosedPage(b))
                         ELSE b.closedPages]

RECURSIVE MapCursorLoop(_, _, _, _)
\* mapCursorPosition's loop from index i; <<>> is null, <<p>> a position
MapCursorLoop(entries, cursorPos, m, i) ==
    IF i > Len(entries) THEN <<>>
    ELSE LET oldNodePos == entries[i].pos
             nodeSize == NodeSize(entries[i].node)
         IN  IF oldNodePos <= cursorPos /\ cursorPos <= oldNodePos + nodeSize
             THEN LET oldNodeTextPos == oldNodePos + 1
                      offsetInNode == cursorPos - oldNodeTextPos
                  IN  IF oldNodePos \notin DOMAIN m THEN <<0>>
                      ELSE <<m[oldNodePos] + offsetInNode>>
             ELSE MapCursorLoop(entries, cursorPos, m, i + 1)

\* mapCursorPosition
mapCursorPosition(entries, cursorPos, m) ==
    MapCursorLoop(entries, cursorPos, m, 1)

\* The content nodes an editor can hold: an empty paragraph (collapsed in
\* the DOM), a paragraph with one line of text, a horizontal rule drawn
\* with no height.
ContentKinds == {"empty", "text", "rule"}

NodeOfKind(kind, id) ==
    CASE kind = "empty" -> Paragraph(id, <<>>, 0)
      [] kind = "text" -> Paragraph(id, <<"a">>, 22)
      [] OTHER -> HorizontalRule(id, 0)

ContentStreams ==
    UNION {{[i \in 1..n |-> NodeOfKind(ks[i], i)] :
                ks \in [1..n -> ContentKinds]} : n \in 0..MaxNodes}

\* Page attributes set on the pages of a loaded document.
PageAttrChoices ==
    {[paperSize |-> "A10", pageMargins |-> "narrow"],
     [paperSize |-> "A9", pageMargins |-> "normal"]}

\* The documents a pass can start from: the stream without pages, or on
\* one or two pages.
DocumentsOf(nodes) ==
    {nodes} \cup
    {IF j = Len(nodes) THEN <<PageNode(a0, nodes)>>
     ELSE <<PageNode(a0, SubSeq(nodes, 1, j)),
            PageNode(a1, SubSeq(nodes, j + 1, Len(nodes)))>> :
        j \in 1..Len(nodes), a0 \in PageAttrChoices, a1 \in PageAttrChoices}

\* One repagination pass with the selection at cursorPos: collect,
\* measure, build, map the cursor, replace the document.
Repaginate ==
    /\ passes < MaxPasses
    /\ LET entries == collectContentNodes(doc)
           nodeHeights == measureNodeHeights(entries)
           built == buildNewDocument(doc, entries, nodeHeights)
       IN  /\ doc' = built.newDoc
           /\ contentNodes' = entries
           /\ oldToNewPosMap' = built.oldToNewPosMap
           /\ \E cursorPos \in 0..ContentSize(doc) :
                /\ oldCursorPos' = cursorPos
                /\ newCursorPos' =
                       mapCursorPosition(contentNodes', cursorPos,
                                         oldToNewPosMap')
           /\ passDoc' = doc
           /\ closedPages' = built.closedPages
           /\ passes' = passes + 1
    /\ UNCHANGED <<splitVars, keyVars, handlerVars>>

PaginateInit ==
    /\ SplitIdle
    /\ KeyIdle
    /\ HandlerIdle
    /\ \E nodes \in ContentStreams : doc \in DocumentsOf(nodes)
    /\ passes = 0
    /\ contentNodes = <<>>
    /\ oldToNewPosMap = <<>>
    /\ oldCursorPos = 0
    /\ newCursorPos = <<>>
    /\ passDoc = <<>>
    /\ closedPages = <<>>

PaginateNext == Repaginate

SpecPaginate == PaginateInit /\ [][PaginateNext]_vars

RECURSIVE ChildStarts(_, _)
\* Where each of kids starts when the first starts at first.
ChildStarts(kids, first) ==
    IF kids = <<>> THEN <<>>
    ELSE <<first>> \o ChildStarts(Tail(kids), first + NodeSize(kids[1]))

RECURSIVE PageChildStarts(_, _)
\* Where each child of each page starts when the first page is at pageStart.
PageChildStarts(pages, pageStart) ==
    IF pages = <<>> THEN <<>>
    ELSE ChildStarts(pages[1].kids, pageStart + 1)
         \o PageChildStarts(Tail(pages), pageStart + NodeSize(pages[1]))

\* C2: after a pass the CursorMap value recorded for every content entry
\* is the position at which that node starts in the rebuilt document, on
\* every page.
CursorMapRecordsNodeStart ==
    passes >= 1 =>
        \A i \in 1..Len(contentNodes) :
            oldToNewPosMap[contentNodes[i].pos] = PageChildStarts(doc, 0)[i]

\* C3: a cursor position that mapCursorPosition resolves lies between 0
\* and the size of the rebuilt document.
MappedCursorInDocument ==
    (passes >= 1 /\ newCursorPos # <<>>) =>
        (0 <= newCursorPos[1] /\ newCursorPos[1] <= ContentSize(doc))

\* C4: collecting and building again from the document a pass produced
\* gives the same pages with the same nodes on each.
RepaginationIdempotent ==
    passes >= 1 =>
        LET entries == collectContentNodes(doc)
        IN  buildNewDocument(doc, entries,
                             measureNodeHeights(entries)).newDoc = doc

RepaginationIdempotentWitness ==
    /\ passes >= 1
    /\ Len(doc) >= 3
    /\ \E k \in 1..Len(doc) : Len(doc[k].kids) >= 2
    /\ \E k \in 1..Len(doc) : doc[k].attrs # DefaultPageNodeAttributes

(***************************************************************************)
(* Part 3: the keymap of PaginationExtension.ts.  Positions follow the     *)
(* document's token address space: a page at position q has its first      *)
(* child at q + 1; a paragraph at p with n characters has its text         *)
(* positions p + 1 .. p + 1 + n.  A selection is a record [from, to].      *)
(***************************************************************************)

\* A text node holding chars, as doc.nodeAt returns it.
TextNode(chars) ==
    [type |-> "text", id |-> 0, text |-> chars, kids |-> <<>>,
     attrs |-> NoAttrs, h |-> 0]

\* null
NoNode ==
    [type |-> "null", id |-> 0, text |-> <<>>, kids |-> <<>>,
     attrs |-> NoAttrs, h |-> 0]

\* The top-level nodes with their positions.
TopEntries(d) == ForEachEntry(d, 0)

\* The blocks (children of pages and top-level nodes that are not pages)
\* with their positions, in document order.
BlockEntries(d) ==
    Flatten([i \in 1..Len(d) |->
        LET offset == ContentSize(SubSeq(d, 1, i - 1))
        IN  IF isPageNode(d[i]) THEN ForEachEntry(d[i].kids, offset + 1)
            ELSE <<[node |-> d[i], pos |-> offset]>>])

\* The elements of a sequence of entries as a set.
EntrySet(entries) == {entries[i] : i \in 1..Len(entries)}

\* Node.nodeAt: the node directly after pos, the innermost one.
nodeAt(d, pos) ==
    LET tops == {e \in EntrySet(TopEntries(d)) : e.pos = pos}
        blocks == {e \in EntrySet(BlockEntries(d)) : e.pos = pos}
        texts == {e \in EntrySet(BlockEntries(d)) :
                     /\ isParagraphNode(e.node)
                     /\ e.pos < pos
                     /\ pos <= e.pos + Len(e.node.text)}
    IN  IF tops # {} THEN (CHOOSE e \in tops : TRUE).node
        ELSE IF blocks # {} THEN (CHOOSE e \in blocks : TRUE).node
        ELSE IF texts # {} THEN TextNode((CHOOSE e \in texts : TRUE).node.text)
        ELSE NoNode

\* The paragraphs whose content holds pos (at most one).
ParagraphsAround(d, pos) ==
    {e \in EntrySet(BlockEntries(d)) :
        /\ isParagraphNode(e.node)
        /\ e.pos + 1 <= pos
        /\ pos <= e.pos + 1 + Len(e.node.text)}

\* utils/node getPositionNodeType: the type name of $pos.parent
getPositionNodeType(d, pos) ==
    IF ParagraphsAround(d, pos) # {} THEN "paragraph"
    ELSE IF \E e \in EntrySet(TopEntries(d)) :
                /\ isPageNode(e.node)
                /\ e.pos + 1 <= pos
                /\ pos <= e.pos + NodeSize(e.node) - 1
         THEN "page"
         ELSE "doc"

RECURSIVE getParentNodePosOfType(_, _, _)
\* utils/node getParentNodePosOfType: the position of the nearest node of
\* the type at or before pos that encloses it; position 0 if there is none.
getParentNodePosOfType(d, pos, type) ==
    IF nodeAt(d, pos).type = type \/ pos <= 0 THEN pos
    ELSE getParentNodePosOfType(d, pos - 1, type)

\* tiptap isNodeEmpty, for a paragraph
isNodeEmpty(node) == Len(node.text) = 0

\* Node.childBefore at the top level: the child ending at or around pos.
childBefore(d, pos) ==
    LET before == {i \in 1..Len(d) : TopEntries(d)[i].pos < pos}
    IN  IF pos <= 0 \/ before = {} THEN [node |-> NoNode, index |-> 0]
        ELSE LET i == CHOOSE k \in before : \A m \in before : m <= k
             IN  [node |-> d[i], index |-> i - 1]

\* Node.childAfter at the top level: the child starting at or around pos.
childAfter(d, pos) ==
    LET holding == {i \in 1..Len(d) :
                       /\ TopEntries(d)[i].pos <= pos
                       /\ pos < TopEntries(d)[i].pos + NodeSize(d[i])}
    IN  IF holding = {} THEN [node |-> NoNode, index |-> Len(d)]
        ELSE LET i == CHOOSE k \in holding : TRUE
             IN  [node |-> d[i], index |-> i - 1]

\* utils/page getPageNodeByPageNum
getPageNodeByPageNum(d, pageNum) ==
    IF isPageNumInRange(d, pageNum) THEN PageNodes(d)[pageNum + 1]
    ELSE NoNode

\* isPosAtStartOfDocument
isPosAtStartOfDocument(d, pos) == pos <= 1

\* isPosAtEndOfDocument: doc.nodeSize is the content size plus 2
isPosAtEndOfDocument(d, pos) == pos >= (ContentSize(d) + 2) - 2

\* isPositionWithinParagraph
isPositionWithinParagraph(d, pos) == getPositionNodeType(d, pos) = "paragraph"

RECURSIVE getPreviousParagraph(_, _)
\* getPreviousParagraph: the nearest position before pos at which a
\* paragraph starts; pos -1 and no node if there is none.
getPreviousParagraph(d, pos) ==
    IF pos <= 0 THEN [pos |-> -1, node |-> NoNode, threw |-> FALSE]
    ELSE IF isParagraphNode(nodeAt(d, pos - 1))
         THEN [pos |-> pos - 1, node |-> nodeAt(d, pos - 1), threw |-> FALSE]
         ELSE getPreviousParagraph(d, pos - 1)

RECURSIVE getNextParagraph(_, _)
\* getNextParagraph: the nearest position after pos at which a paragraph
\* starts.  The loop runs up to doc.nodeSize, and doc.nodeAt raises a
\* RangeError for a position beyond the content, so the search ends in an
\* exception (threw) when no paragraph follows.
getNextParagraph(d, pos) ==
    IF pos >= ContentSize(d) + 2
    THEN [pos |-> -1, node |-> NoNode, threw |-> FALSE]
    ELSE IF pos + 1 > ContentSize(d)
         THEN [pos |-> -1, node |-> NoNode, threw |-> TRUE]
         ELSE IF isParagraphNode(nodeAt(d, pos + 1))
              THEN [pos |-> pos + 1, node |-> nodeAt(d, pos + 1),
                    threw |-> FALSE]
              ELSE getNextParagraph(d, pos + 1)

\* getThisPageNodePosition
getThisPageNodePosition(d, pos) == getParentNodePosOfType(d, pos, "page")

\* getThisParagraphNodePosition
getThisParagraphNodePosition(d, pos) ==
    getParentNodePosOfType(d, pos, "paragraph")

\* getPageNodeAndPosition
getPageNodeAndPosition(d, pos) ==
    LET pagePos == getThisPageNodePosition(d, pos)
        pageNode == nodeAt(d, pagePos)
    IN  IF ~isPageNode(pageNode) THEN [pos |-> -1, node |-> pageNode]
        ELSE [pos |-> pagePos, node |-> pageNode]

\* getParagraphNodeAndPosition
getParagraphNodeAndPosition(d, pos) ==
    IF isPosAtStartOfDocument(d, pos) THEN getNextParagraph(d, pos)
    ELSE IF isPosAtEndOfDocument(d, pos) THEN getPreviousParagraph(d, pos)
    ELSE LET paragraphPos == getThisParagraphNodePosition(d, pos)
             paragraphNode == nodeAt(d, paragraphPos)
         IN  IF ~isParagraphNode(paragraphNode)
             THEN [pos |-> -1, node |-> paragraphNode, threw |-> FALSE]
             ELSE [pos |-> paragraphPos, node |-> paragraphNode,
                   threw |-> FALSE]

\* node.content.size of a node returned by a lookup
NodeContentSize(node) ==
    CASE node.type = "page" -> ContentSize(node.kids)
      [] node.type = "paragraph" -> Len(node.text)
      [] OTHER -> 0

\* getEndOfPagePosition
getEndOfPagePosition(d, pos) ==
    LET page == getPageNodeAndPosition(d, pos)
    IN  IF page.node = NoNode THEN page.pos
        ELSE page.pos + NodeContentSize(page.node)

\* getEndOfParagraphPosition
getEndOfParagraphPosition(d, pos) ==
    LET paragraph == getParagraphNodeAndPosition(d, pos)
    IN  IF paragraph.node = NoNode THEN paragraph.pos
        ELSE paragraph.pos + NodeContentSize(paragraph.node)

\* isPosMatchingStartOfPageCondition
isPosMatchingStartOfPageCondition(d, pos, checkExactStart) ==
    IF isPosAtStartOfDocument(d, pos) THEN TRUE
    ELSE IF ~isPositionWithinParagraph(d, pos) THEN FALSE
    ELSE LET startOfParagraphPos == getParagraphNodeAndPosition(d, pos).pos
             startOfPagePos == getPageNodeAndPosition(d, pos).pos
             isFirstParagraph == startOfPagePos + 1 = startOfParagraphPos
         IN  IF startOfPagePos < 0 \/ startOfParagraphPos < 0 THEN FALSE
             ELSE IF checkExactStart
                  THEN isFirstParagraph /\ pos - 1 = startOfParagraphPos
                  ELSE isFirstParagraph

\* isPosAtStartOfPage
isPosAtStartOfPage(d, pos) == isPosMatchingStartOfPageCondition(d, pos, TRUE)

\* isPosMatchingEndOfPageCondition
isPosMatchingEndOfPageCondition(d, pos, checkExactEnd) ==
    IF isPosAtEndOfDocument(d, pos) THEN TRUE
    ELSE IF ~isPositionWithinParagraph(d, pos) THEN FALSE
    ELSE LET endOfParagraphPos == getEndOfParagraphPosition(d, pos)
             endOfPagePos == getEndOfPagePosition(d, pos)
         IN  IF endOfParagraphPos < 0 \/ endOfPagePos < 0 THEN FALSE
             ELSE IF checkExactEnd THEN pos = endOfPagePos
                  ELSE endOfParagraphPos + 1 = endOfPagePos

\* isPosAtEndOfPage
isPosAtEndOfPage(d, pos) == isPosMatchingEndOfPageCondition(d, pos, TRUE)

\* isAtStartOfParagraph
isAtStartOfParagraph(d, pos) ==
    LET paragraph == getParagraphNodeAndPosition(d, pos)
    IN  /\ paragraph.node # NoNode
        /\ paragraph.pos <= pos
        /\ pos <= paragraph.pos + 1

\* isAtEndOfParagraph
isAtEndOfParagraph(d, pos) ==
    LET paragraph == getParagraphNodeAndPosition(d, pos)
    IN  /\ paragraph.node # NoNode
        /\ pos + 1 = paragraph.pos + NodeSize(paragraph.node)

\* isAtStartOrEndOfParagraph
isAtStartOrEndOfParagraph(d, pos) ==
    isAtStartOfParagraph(d, pos) \/ isAtEndOfParagraph(d, pos)

\* The index (from 0) at which a child starting at pos sits in nodes, the
\* first of which starts at base.
IndexAt(nodes, base, pos) ==
    Cardinality({i \in 1..Len(nodes) :
                    base + ContentSize(SubSeq(nodes, 1, i - 1)) < pos})

\* nodes with del children at pos replaced by ins.
Splice(nodes, base, pos, del, ins) ==
    LET j == IndexAt(nodes, base, pos)
    IN  SubSeq(nodes, 1, j) \o ins \o SubSeq(nodes, j + 1 + del, Len(nodes))

\* ReplaceStep on whole blocks: del blocks at pos replaced by ins, inside
\* the page that holds pos or at the top level.
ReplaceBlocks(d, pos, del, ins) ==
    LET inside == {i \in 1..Len(d) :
                      /\ isPageNode(d[i])
                      /\ TopEntries(d)[i].pos < pos
                      /\ pos < TopEntries(d)[i].pos + NodeSize(d[i])}
    IN  IF inside = {} THEN Splice(d, 0, pos, del, ins)
        ELSE LET i == CHOOSE k \in inside : TRUE
             IN  [d EXCEPT ![i].kids =
                     Splice(@, TopEntries(d)[i].pos + 1, pos, del, ins)]

\* StepMap.map with assoc 1 for a step replacing oldSize positions at start
\* by newSize positions.
MapPos(pos, start, oldSize, newSize) ==
    IF pos < start THEN pos
    ELSE IF pos > start + oldSize THEN pos + newSize - oldSize
    ELSE IF oldSize # 0 /\ pos = start THEN start
    ELSE start + newSize

\* state.tr: the transaction before any step
NewTransaction(d, sel) == [doc |-> d, selection |-> sel, mapped |-> FALSE]

\* A replace step of the transaction; the selection is mapped through it.
TrReplaceBlocks(tr, pos, del, ins) ==
    LET oldSize == IF del = 0 THEN 0 ELSE NodeSize(nodeAt(tr.doc, pos))
        newSize == ContentSize(ins)
    IN  [doc |-> ReplaceBlocks(tr.doc, pos, del, ins),
         selection |->
             [from |-> MapPos(tr.selection.from, pos, oldSize, newSize),
              to |-> MapPos(tr.selection.to, pos, oldSize, newSize)],
         mapped |-> TRUE]

\* utils/selection setSelection: tr.setSelection
setSelection(tr, sel) == [tr EXCEPT !.selection = sel, !.mapped = FALSE]

\* Selection.findFrom from a position outside a textblock: the first
\* block in direction dir, a cursor in a paragraph or a node selection on
\* a leaf block; from -1 if there is none.
FindFrom(d, pos, dir) ==
    LET blocks == EntrySet(BlockEntries(d))
        ahead == IF dir > 0 THEN {e \in blocks : e.pos >= pos}
                 ELSE {e \in blocks : e.pos + NodeSize(e.node) <= pos}
    IN  IF ahead = {} THEN [from |-> -1, to |-> -1]
        ELSE LET e == CHOOSE x \in ahead : \A y \in ahead :
                          IF dir > 0 THEN x.pos <= y.pos ELSE x.pos >= y.pos
             IN  IF ~isParagraphNode(e.node)
                 THEN [from |-> e.pos, to |-> e.pos + 1]
                 ELSE IF dir > 0
                      THEN [from |-> e.pos + 1, to |-> e.pos + 1]
                      ELSE [from |-> e.pos + 1 + Len(e.node.text),
                            to |-> e.pos + 1 + Len(e.node.text)]

\* Selection.near
SelectionNear(d, pos, bias) ==
    IF ParagraphsAround(d, pos) # {} THEN [from |-> pos, to |-> pos]
    ELSE IF FindFrom(d, pos, bias).from >= 0 THEN FindFrom(d, pos, bias)
    ELSE IF FindFrom(d, pos, -bias).from >= 0 THEN FindFrom(d, pos, -bias)
    ELSE [from |-> 0, to |-> ContentSize(d)]

\* Transaction.selection when the transaction is dispatched: a selection
\* mapped through steps is moved to a valid place if it fell outside a
\* textblock.
TrSelection(tr) ==
    IF /\ tr.mapped
       /\ tr.selection.from = tr.selection.to
       /\ ParagraphsAround(tr.doc, tr.selection.from) = {}
    THEN SelectionNear(tr.doc, tr.selection.from, 1)
    ELSE tr.selection

\* utils/selection moveToNextTextBlock
moveToNextTextBlock(tr, pos) == SelectionNear(tr.doc, pos, 1)

\* utils/selection moveToPreviousTextBlock
moveToPreviousTextBlock(tr, pos) == SelectionNear(tr.doc, pos, -1)

\* utils/selection setSelectionAtPos
setSelectionAtPos(tr, pos) == setSelection(tr, [from |-> pos, to |-> pos])

\* utils/selection setSelectionToEndOfParagraph: the end of the content of
\* the paragraph node passed, placed at paragraphPos
setSelectionToEndOfParagraph(tr, paragraphPos, paragraphNode) ==
    setSelectionAtPos(tr, paragraphPos + 1 + Len(paragraphNode.text))

\* utils/node deleteNode: tr.delete(pos, pos + node.nodeSize)
deleteNode(tr, pos, node) == TrReplaceBlocks(tr, pos, 1, <<>>)

\* utils/node appendAndReplaceNode: the existing node at pos replaced by a
\* copy holding its content followed by the content of newNode
appendAndReplaceNode(tr, pos, existingNode, newNode) ==
    TrReplaceBlocks(tr, pos, 1,
        <<[existingNode EXCEPT !.text = @ \o newNode.text]>>)

\* isPosAtFirstChildOfPage
isPosAtFirstChildOfPage(d, pos) ==
    isPosMatchingStartOfPageCondition(d, pos, FALSE)

\* isPosAtLastChildOfPage
isPosAtLastChildOfPage(d, pos) ==
    isPosMatchingEndOfPageCondition(d, pos, FALSE)

\* utils/selection moveToThisTextBlock
moveToThisTextBlock(tr, pos) == SelectionNear(tr.doc, pos, 1)

\* utils/selection moveToNearestValidCursorPosition: the nearest place a
\* cursor can stand, looking forwards and then backwards; <<>> is the
\* null returned when there is none.
moveToNearestValidCursorPosition(d, pos) ==
    IF FindFrom(d, pos, 1).from >= 0 THEN <<FindFrom(d, pos, 1)>>
    ELSE IF FindFrom(d, pos, -1).from >= 0 THEN <<FindFrom(d, pos, -1)>>
    ELSE <<>>

\* utils/selection setSelectionAtEndOfDocument: Selection.atEnd(tr.doc)
setSelectionAtEndOfDocument(tr) ==
    setSelection(tr,
        IF FindFrom(tr.doc, ContentSize(tr.doc), -1).from >= 0
        THEN FindFrom(tr.doc, ContentSize(tr.doc), -1)
        ELSE [from |-> 0, to |-> ContentSize(tr.doc)])

\* paginationUpdateCursorPosition, which the plugin calls on the
\* transaction holding the rebuilt document; mappedPos is newCursorPos,
\* <<>> for null.  The result tells whether an exception left the function
\* (doc.resolve raises a RangeError for a position outside the document,
\* and isAtStartOfParagraph passes on the one of getNextParagraph), how
\* many times a selection was set on the transaction, whether it was set
\* by setSelectionAtEndOfDocument, whether a selection was derived from
\* the resolved position, and the selection the transaction holds.
paginationUpdateCursorPosition(tr, mappedPos) ==
    IF mappedPos = <<>>
    THEN [threw |-> FALSE, selectionsSet |-> 1, atEndOfDocument |-> TRUE,
          derived |-> FALSE,
          selection |-> setSelectionAtEndOfDocument(tr).selection]
    ELSE LET d == tr.doc
             pos == mappedPos[1]
             ending == {e \in EntrySet(BlockEntries(d)) \cup
                               EntrySet(TopEntries(d)) :
                           e.pos + NodeSize(e.node) = pos}
             starting == {e \in EntrySet(BlockEntries(d)) \cup
                                 EntrySet(TopEntries(d)) : e.pos = pos}
             isTextblock == ParagraphsAround(d, pos) # {}
             nodeBefore == IF isTextblock \/ ending = {} THEN NoNode
                           ELSE (CHOOSE e \in ending : TRUE).node
             nodeAfter == IF isTextblock \/ starting = {} THEN NoNode
                          ELSE (CHOOSE e \in starting : TRUE).node
             sel ==
                 IF isTextblock
                 THEN IF isPosAtFirstChildOfPage(d, pos)
                      THEN IF isPosAtStartOfPage(d, pos)
                           THEN <<moveToThisTextBlock(tr, pos)>>
                           ELSE <<moveToNextTextBlock(tr, pos)>>
                      ELSE IF isPosAtLastChildOfPage(d, pos)
                      THEN IF isPosAtEndOfPage(d, pos)
                           THEN <<moveToPreviousTextBlock(tr, pos)>>
                           ELSE <<moveToThisTextBlock(tr, pos)>>
                      ELSE <<moveToNextTextBlock(tr, pos)>>
                 ELSE IF /\ nodeBefore # NoNode
                         /\ nodeBefore.type \in {"text", "paragraph"}
                 THEN <<moveToNextTextBlock(tr, pos)>>
                 ELSE IF /\ nodeAfter # NoNode
                         /\ nodeAfter.type \in {"text", "paragraph"}
                 THEN <<moveToNextTextBlock(tr, pos)>>
                 ELSE moveToNearestValidCursorPosition(d, pos)
         IN  IF \/ pos < 0
                \/ pos > ContentSize(d)
                \/ getParagraphNodeAndPosition(d, pos).threw
             THEN [threw |-> TRUE, selectionsSet |-> 0,
                   atEndOfDocument |-> FALSE, derived |-> FALSE,
                   selection |-> tr.selection]
             ELSE IF sel # <<>>
             THEN [threw |-> FALSE, selectionsSet |-> 1,
                   atEndOfDocument |-> FALSE, derived |-> TRUE,
                   selection |-> setSelection(tr, sel[1]).selection]
             ELSE [threw |-> FALSE, selectionsSet |-> 1,
                   atEndOfDocument |-> TRUE, derived |-> FALSE,
                   selection |-> setSelectionAtEndOfDocument(tr).selection]

\* utils/selection isHighlighting: the selection is not empty
isHighlighting(sel) == sel.from # sel.to

\* What one call of a key handler did: the value it returned ("true",
\* "false", or "threw" when an exception left the handler), how many times
\* it called dispatch, and the document and selection of the state after
\* the call.
NotHandled(d, sel) ==
    [returned |-> "false", dispatches |-> 0, doc |-> d, selection |-> sel]

\* An exception raised inside the handler.
Threw(d, sel) ==
    [returned |-> "threw", dispatches |-> 0, doc |-> d, selection |-> sel]

\* dispatch(tr); return true, the last two statements of every handler
DispatchAndReturnTrue(tr) ==
    [returned |-> "true", dispatches |-> 1, doc |-> tr.doc,
     selection |-> TrSelection(tr)]

\* The steps Enter adds to the transaction for the paragraph entry p that
\* holds the cursor at from.
EnterSteps(d, tr, from, p, paragraphNode) ==
    LET newParagraph == Paragraph(0, <<>>, 0)
        parentOffset == from - (p.pos + 1)
    IN  IF isNodeEmpty(paragraphNode)
        THEN \* tr.insert(from, newParagraph): placed after the paragraph
             TrReplaceBlocks(tr, p.pos + NodeSize(p.node), 0,
                             <<newParagraph>>)
        ELSE IF isAtStartOrEndOfParagraph(d, from)
        THEN \* tr.replaceSelectionWith(newParagraph): before the
             \* paragraph at its start, after it otherwise
             IF parentOffset = 0
             THEN TrReplaceBlocks(tr, p.pos, 0, <<newParagraph>>)
             ELSE TrReplaceBlocks(tr, p.pos + NodeSize(p.node), 0,
                                  <<newParagraph>>)
        ELSE \* the text after the cursor moves to a new paragraph
             TrReplaceBlocks(tr, p.pos, 1,
                 <<[p.node EXCEPT !.text = SubSeq(@, 1, parentOffset)],
                   Paragraph(0, SubSeq(p.node.text, parentOffset + 1,
                                       Len(p.node.text)), 0)>>)

\* keymap Enter
KeyEnter(d, sel, hasDispatch) ==
    IF ~hasDispatch THEN NotHandled(d, sel)
    ELSE IF isHighlighting(sel) THEN NotHandled(d, sel)
    ELSE IF ~isPositionWithinParagraph(d, sel.from) THEN NotHandled(d, sel)
    ELSE LET from == sel.from
             paragraph == getParagraphNodeAndPosition(d, from)
             p == CHOOSE e \in ParagraphsAround(d, from) : TRUE
         IN  IF paragraph.threw THEN Threw(d, sel)
             ELSE IF paragraph.node = NoNode THEN NotHandled(d, sel)
             ELSE LET tr == EnterSteps(d, NewTransaction(d, sel), from, p,
                                       paragraph.node)
                  IN  DispatchAndReturnTrue(
                          setSelection(tr, moveToNextTextBlock(tr, from)))

\* BackspaceAtEndOfPage that leaves the cursor where it was.
BackspaceAtEndOfPageKeepsCursor(tr, thisNodePos, paragraphPos, paragraphNode) ==
    IF isNodeEmpty(paragraphNode)
    THEN setSelectionAtPos(deleteNode(tr, paragraphPos, paragraphNode),
                           thisNodePos)
    ELSE setSelectionAtPos(
             TrReplaceBlocks(tr, paragraphPos, 1,
                 <<Paragraph(0, SubSeq(paragraphNode.text, 1,
                                       Len(paragraphNode.text) - 1), 0)>>),
             thisNodePos)

\* Backspace at the end of a page: the empty paragraph deleted, or the last
\* character of the paragraph removed.
BackspaceAtEndOfPage(tr, thisNodePos, paragraphPos, paragraphNode) ==
    IF isNodeEmpty(paragraphNode)
    THEN LET tr1 == deleteNode(tr, paragraphPos, paragraphNode)
         IN  setSelection(tr1, moveToPreviousTextBlock(tr1, paragraphPos))
    ELSE LET newParagraph ==
                 Paragraph(0, SubSeq(paragraphNode.text, 1,
                                     Len(paragraphNode.text) - 1), 0)
         IN  setSelectionAtPos(
                 TrReplaceBlocks(tr, paragraphPos, 1, <<newParagraph>>),
                 thisNodePos - 1)

\* Backspace at the start of a page without deleting the current paragraph.
BackspaceMergeKeepsParagraph(tr, paragraphPos, paragraphNode, prevPos, prevNode) ==
    setSelectionToEndOfParagraph(
        appendAndReplaceNode(tr, prevPos, prevNode, paragraphNode),
        prevPos, prevNode)

\* Backspace at the start of a page: the current paragraph appended to the
\* previous one.
BackspaceMerge(tr, paragraphPos, paragraphNode, prevPos, prevNode) ==
    LET tr1 == IF ~isNodeEmpty(prevNode) \/ ~isNodeEmpty(paragraphNode)
               THEN deleteNode(tr, paragraphPos, paragraphNode)
               ELSE tr
    IN  setSelectionToEndOfParagraph(
            appendAndReplaceNode(tr1, prevPos, prevNode, paragraphNode),
            prevPos, prevNode)

\* keymap Backspace, the branch for the start of a page
BackspaceAtStartOfPage(d, sel) ==
    LET thisNodePos == sel.from
        thisPageNodePos == getThisPageNodePosition(d, thisNodePos)
        firstChildPos == thisPageNodePos + 1
        prevPageNode == childBefore(d, thisPageNodePos).node
        paragraph == getParagraphNodeAndPosition(d, thisNodePos)
        prev == getPreviousParagraph(d, paragraph.pos)
    IN  IF firstChildPos # thisNodePos - 1 THEN NotHandled(d, sel)
        ELSE IF prevPageNode = NoNode THEN NotHandled(d, sel)
        ELSE IF ~isPageNode(prevPageNode) THEN NotHandled(d, sel)
        ELSE IF paragraph.threw THEN Threw(d, sel)
        ELSE IF paragraph.node = NoNode THEN NotHandled(d, sel)
        ELSE IF prev.node = NoNode THEN NotHandled(d, sel)
        ELSE DispatchAndReturnTrue(
                 BackspaceMerge(NewTransaction(d, sel), paragraph.pos,
                                paragraph.node, prev.pos, prev.node))

\* keymap Backspace
KeyBackspace(d, sel, hasDispatch) ==
    IF ~hasDispatch THEN NotHandled(d, sel)
    ELSE IF isHighlighting(sel) THEN NotHandled(d, sel)
    ELSE IF ~isPositionWithinParagraph(d, sel.from) THEN NotHandled(d, sel)
    ELSE IF isPosAtEndOfPage(d, sel.from)
    THEN LET paragraph == getParagraphNodeAndPosition(d, sel.from)
         IN  IF paragraph.threw THEN Threw(d, sel)
             ELSE IF paragraph.node = NoNode THEN NotHandled(d, sel)
             ELSE DispatchAndReturnTrue(
                      BackspaceAtEndOfPage(NewTransaction(d, sel), sel.from,
                                           paragraph.pos, paragraph.node))
    ELSE IF ~isPosAtStartOfPage(d, sel.from) THEN NotHandled(d, sel)
    ELSE BackspaceAtStartOfPage(d, sel)

\* Delete at the end of the document returning true without a dispatch.
DeleteAtEndOfDocumentSilent(tr) ==
    [returned |-> "true", dispatches |-> 0, doc |-> tr.doc,
     selection |-> tr.selection]

\* Delete at the end of the document left to the default behaviour, which
\* removes the paragraph.
DeleteAtEndOfDocumentDefault(tr) ==
    LET paragraph == getParagraphNodeAndPosition(tr.doc, tr.selection.from)
    IN  DispatchAndReturnTrue(deleteNode(tr, paragraph.pos, paragraph.node))

\* Delete with no page after the current one: the untouched transaction
\* is dispatched.
DeleteAtEndOfDocument(tr) == DispatchAndReturnTrue(tr)

\* Delete at the end of a page that has a next page: the next paragraph
\* appended to the current one.  The selections that moveToNextTextBlock
\* and moveToNearestTextSelection return are dropped.
DeleteMerge(tr, thisPos, paragraphPos, paragraphNode, nextPos, nextNode) ==
    LET tr1 == IF ~isNodeEmpty(nextNode)
               THEN deleteNode(tr, nextPos, nextNode)
               ELSE tr
        tr2 == appendAndReplaceNode(tr1, paragraphPos, paragraphNode,
                                    nextNode)
    IN  IF isNodeEmpty(paragraphNode) THEN tr2
        ELSE setSelectionAtPos(tr2, thisPos)

\* keymap Delete
KeyDelete(d, sel, hasDispatch) ==
    IF ~hasDispatch THEN NotHandled(d, sel)
    ELSE IF isHighlighting(sel) THEN NotHandled(d, sel)
    ELSE IF ~isPositionWithinParagraph(d, sel.from) THEN NotHandled(d, sel)
    ELSE IF ~isPosAtEndOfPage(d, sel.from) THEN NotHandled(d, sel)
    ELSE LET thisPos == sel.from
             thisTextNode == nodeAt(d, thisPos - 1)
             paragraph == getParagraphNodeAndPosition(d, thisPos)
             thisPageChild == childAfter(d, paragraph.pos)
             nextPageNum == thisPageChild.index + 1
             next == getNextParagraph(d, thisPos)
         IN  IF thisTextNode = NoNode THEN NotHandled(d, sel)
             ELSE IF paragraph.threw THEN Threw(d, sel)
             ELSE IF paragraph.node = NoNode THEN NotHandled(d, sel)
             ELSE IF thisTextNode.type \notin {"paragraph", "text"}
                  THEN NotHandled(d, sel)
             ELSE IF ~isPageNode(thisPageChild.node) THEN NotHandled(d, sel)
             ELSE IF nextPageNum > Len(d) - 1
                  THEN DeleteAtEndOfDocument(NewTransaction(d, sel))
             ELSE IF getPageNodeByPageNum(d, nextPageNum) = NoNode
                  THEN NotHandled(d, sel)
             ELSE IF next.threw THEN Threw(d, sel)
             ELSE IF next.node = NoNode THEN NotHandled(d, sel)
             ELSE DispatchAndReturnTrue(
                      DeleteMerge(NewTransaction(d, sel), thisPos,
                                  paragraph.pos, paragraph.node,
                                  next.pos, next.node))

\* The blocks a page holds when a key is pressed.
KeyBlocks ==
    {Paragraph(0, <<>>, 0), Paragraph(0, <<"a">>, 0),
     Paragraph(0, <<"b", "c">>, 0), HorizontalRule(0, 0)}

KeyPages ==
    {PageNode(DefaultPageNodeAttributes, kids) :
        kids \in UNION {[1..n -> KeyBlocks] : n \in 1..MaxPageKids}}

KeyDocuments == UNION {[1..n -> KeyPages] : n \in 1..MaxKeyPages}

\* The selections a document admits: a cursor anywhere, or a range of one
\* position.
SelectionsOf(d) ==
    UNION {{[from |-> f, to |-> t] :
                t \in {f, f + 1} \cap (0..ContentSize(d))} :
           f \in 0..ContentSize(d)}

\* A key handler was called with or without a dispatch function; the
\* editor state becomes what the handler dispatched.
PressKey(key, hasDispatch, out) ==
    /\ keyCount < MaxKeys
    /\ lastCall' = [key |-> key, hasDispatch |-> hasDispatch,
                    returned |-> out.returned,
                    dispatches |-> out.dispatches,
                    doc |-> doc, selection |-> selection]
    /\ doc' = out.doc
    /\ selection' = out.selection
    /\ keyCount' = keyCount + 1
    /\ UNCHANGED <<splitVars, passes, contentNodes, oldToNewPosMap,
                   oldCursorPos, newCursorPos, passDoc, closedPages,
                   handlerVars>>

Enter ==
    \E hasDispatch \in BOOLEAN :
        PressKey("Enter", hasDispatch, KeyEnter(doc, selection, hasDispatch))

Backspace ==
    \E hasDispatch \in BOOLEAN :
        PressKey("Backspace", hasDispatch,
                 KeyBackspace(doc, selection, hasDispatch))

Delete ==
    \E hasDispatch \in BOOLEAN :
        PressKey("Delete", hasDispatch,
                 KeyDelete(doc, selection, hasDispatch))

KeysInit ==
    /\ SplitIdle
    /\ HandlerIdle
    /\ doc \in KeyDocuments
    /\ passes = 0
    /\ contentNodes = <<>>
    /\ oldToNewPosMap = <<>>
    /\ oldCursorPos = 0
    /\ newCursorPos = <<>>
    /\ passDoc = <<>>
    /\ closedPages = <<>>
    /\ selection \in SelectionsOf(doc)
    /\ keyCount = 0
    /\ lastCall = [key |-> "none", hasDispatch |-> FALSE,
                   returned |-> "false", dispatches |-> 0,
                   doc |-> <<>>, selection |-> [from |-> 0, to |-> 0]]

KeysNext == Enter \/ Backspace \/ Delete

SpecKeys == KeysInit /\ [][KeysNext]_vars

\* C8: a key handler returns true exactly when it called dispatch once,
\* and has not called dispatch when it returns false.
HandledIffDispatchedOnce ==
    lastCall.key # "none" =>
        /\ (lastCall.returned = "true") <=> (lastCall.dispatches = 1)
        /\ (lastCall.returned = "false") => (lastCall.dispatches = 0)

HandledIffDispatchedOnceWitness ==
    /\ lastCall.key = "Delete"
    /\ lastCall.returned = "true"
    /\ lastCall.dispatches = 1
    /\ Len(lastCall.doc) = 1

\* The position of the k-th top-level node of d.
TopPos(d, k) == ContentSize(SubSeq(d, 1, k - 1))

\* The last child of a page, which has one.
LastKid(page) == page.kids[Len(page.kids)]

\* The latest call was Backspace with a cursor at the very start of page
\* k of the document before the call, where page k - 1 ends with a
\* non-empty paragraph and page k begins with a non-empty paragraph.
BackspaceAtBoundary(k) ==
    /\ lastCall.key = "Backspace"
    /\ lastCall.hasDispatch
    /\ k \in 2..Len(lastCall.doc)
    /\ lastCall.doc[k - 1].kids # <<>>
    /\ lastCall.doc[k].kids # <<>>
    /\ isParagraphNode(LastKid(lastCall.doc[k - 1]))
    /\ LastKid(lastCall.doc[k - 1]).text # <<>>
    /\ isParagraphNode(lastCall.doc[k].kids[1])
    /\ lastCall.doc[k].kids[1].text # <<>>
    /\ lastCall.selection.from = TopPos(lastCall.doc, k) + 2
    /\ lastCall.selection.to = lastCall.selection.from

\* C6: Backspace at the very start of page 2, between non-empty texts A
\* and B, returns handled, leaves one paragraph A followed by B as the last
\* paragraph of page 1, removes the paragraph from page 2 and puts the
\* selection at offset |A| inside the merged paragraph.
BackspaceMergesAcrossPages ==
    \A k \in 1..MaxKeyPages :
        BackspaceAtBoundary(k) =>
            LET before == lastCall.doc
                A == LastKid(before[k - 1]).text
                B == before[k].kids[1].text
                n == Len(before[k - 1].kids)
                mergedPos == TopPos(before, k - 1) + 1
                             + ContentSize(SubSeq(before[k - 1].kids, 1, n - 1))
            IN  /\ lastCall.returned = "true"
                /\ Len(doc) = Len(before)
                /\ Len(doc[k - 1].kids) = n
                /\ \A i \in 1..(n - 1) :
                       doc[k - 1].kids[i] = before[k - 1].kids[i]
                /\ isParagraphNode(LastKid(doc[k - 1]))
                /\ LastKid(doc[k - 1]).text = A \o B
                /\ doc[k].kids = Tail(before[k].kids)
                /\ \A i \in 1..Len(before) :
                       i \notin {k - 1, k} => doc[i] = before[i]
                /\ selection = [from |-> mergedPos + 1 + Len(A),
                                to |-> mergedPos + 1 + Len(A)]

BackspaceMergesAcrossPagesWitness ==
    /\ BackspaceAtBoundary(2)
    /\ lastCall.returned = "true"
    /\ Len(lastCall.doc[1].kids) = 2
    /\ Len(lastCall.doc[2].kids) = 2
    /\ LastKid(doc[1]).text = <<"a", "b", "c">>

\* The latest call was Delete with a cursor at the end of the last
\* paragraph of the last page of the document before the call.
DeleteAtDocumentEnd ==
    /\ lastCall.key = "Delete"
    /\ lastCall.hasDispatch
    /\ lastCall.doc # <<>>
    /\ LET page == lastCall.doc[Len(lastCall.doc)]
       IN  /\ isPageNode(page)
           /\ page.kids # <<>>
           /\ isParagraphNode(LastKid(page))
           /\ lastCall.selection.from = ContentSize(lastCall.doc) - 2
    /\ lastCall.selection.to = lastCall.selection.from

\* C7: Delete with the cursor at the end of the last paragraph of the last
\* page returns handled, and the transaction it dispatches leaves the
\* document as it was.
DeleteAtDocumentEndKeepsDocument ==
    DeleteAtDocumentEnd =>
        /\ lastCall.returned = "true"
        /\ lastCall.dispatches = 1
        /\ doc = lastCall.doc

DeleteAtDocumentEndKeepsDocumentWitness ==
    /\ DeleteAtDocumentEnd
    /\ lastCall.returned = "true"
    /\ Len(doc) = 2
    /\ LastKid(doc[2]).text # <<>>

---------------------------------------------------------------------------
(***************************************************************************)
(* Part 4: the TableHandler as one object (utils/table.ts): measureTable   *)
(* with its cache, splitTableAtHeight and optimiseTables, called one after *)
(* another by a caller that holds an array of tables and an array of       *)
(* measurements.  A TableMeasurement is a JavaScript object, so the cache, *)
(* the caller's array and the result of a call can hold the same one: heap *)
(* is the objects by address and a measurement is passed as its address.   *)
(* The two classes of table.ts have the same measureTable and the same     *)
(* optimiseTables, but for getHeaderRowCount.                              *)
(***************************************************************************)

\* The number NaN, which is also what undefined (an array element that is
\* not there) becomes in arithmetic; a value no height of the model reaches.
NaN == -1000

Plus(a, b) == IF a = NaN \/ b = NaN THEN NaN ELSE a + b

Minus(a, b) == IF a = NaN \/ b = NaN THEN NaN ELSE a - b

\* a <= b, a < b and a > b: false when either side is NaN.
LessEq(a, b) == a # NaN /\ b # NaN /\ a <= b

Less(a, b) == a # NaN /\ b # NaN /\ a < b

Greater(a, b) == a # NaN /\ b # NaN /\ a > b

\* array[i]
At(s, i) == IF i + 1 \in DOMAIN s THEN s[i + 1] ELSE NaN

RECURSIVE NumSum(_)
\* reduce((sum, height) => sum + height, 0)
NumSum(s) == IF s = <<>> THEN 0 ELSE Plus(Head(s), NumSum(Tail(s)))

\* Array.prototype.slice(0, -n) for n > 0.
SliceEnd(s, n) == SubSeq(s, 1, Max(Len(s) - n, 0))

\* `${type.name}-${content.size}-${JSON.stringify(node.toJSON())}`: the
\* node's rows and attributes decide every part of it.
getTableCacheKey(node) == node

\* Node.nodeSize of a row that holds one cell with one empty paragraph.
RowNodeSize == 6

\* rows.map((row, index) => height || row.nodeSize) over the rendered <tr>
\* heights, or rows.map((row) => row.nodeSize) when the view has no DOM node.
measureRowHeights(rows, domAvailable, trs) ==
    [i \in 1..Len(rows) |->
        IF domAvailable /\ trs[i] # 0 THEN trs[i] ELSE RowNodeSize]

\* The measurement objects of an array of addresses, by value.
Deref(objects, ms) == [i \in DOMAIN ms |-> objects[ms[i]]]

\* The objects that the cache or the array ms still holds keep their order
\* and move to the addresses 1, 2, ...; the others are garbage.
Compact(objects, cache, ms) ==
    LET live == {cache[k] : k \in DOMAIN cache} \cup {ms[i] : i \in DOMAIN ms}
        rank(a) == Cardinality({b \in live : b <= a})
    IN  [heap |-> [i \in 1..Cardinality(live) |->
                      objects[CHOOSE a \in live : rank(a) = i]],
         cache |-> [k \in DOMAIN cache |-> rank(cache[k])],
         ms |-> [i \in DOMAIN ms |-> rank(ms[i])]]

RECURSIVE OverflowLoop(_, _, _, _, _)
\* for (let i = rows.length - 1; i >= 0; i--) { ... } of "handle overflows"
OverflowLoop(rowHeights, i, tableHeight, availableSpace, acc) ==
    IF i < 0 THEN acc
    ELSE IF LessEq(Minus(tableHeight, acc.totalSpaceTaken), availableSpace)
    THEN acc
    ELSE OverflowLoop(rowHeights, i - 1, tableHeight, availableSpace,
            [movedRowMeasurements |->
                 <<At(rowHeights, i)>> \o acc.movedRowMeasurements,
             totalSpaceTaken |->
                 Plus(acc.totalSpaceTaken, At(rowHeights, i)),
             count |-> acc.count + 1])

RECURSIVE UnderflowLoop(_, _, _, _, _)
\* for (let i = 0; i < nextTableRows.length; i++) { ... }
UnderflowLoop(rowHeights, i, nextRowCount, availableHeight, acc) ==
    IF i >= nextRowCount THEN acc
    ELSE IF LessEq(Minus(availableHeight, acc.totalSpaceTaken),
                   At(rowHeights, i))
    THEN acc
    ELSE UnderflowLoop(rowHeights, i + 1, nextRowCount, availableHeight,
            [movedRowMeasurements |->
                 Append(acc.movedRowMeasurements, At(rowHeights, i)),
             totalSpaceTaken |->
                 Plus(acc.totalSpaceTaken, At(rowHeights, i)),
             count |-> acc.count + 1])

NoRowsMoved ==
    [movedRowMeasurements |-> <<>>, totalSpaceTaken |-> 0, count |-> 0]

\* OverflowMove that pushes neither the adjusted table nor the moved rows.
OverflowMoveNoPush(st, ms, index, over) == st

\* "if (rowsToMove.length)" of the overflow branch.  st is the state of the
\* forEach: the tables array and the measurement objects as they are now,
\* and the two arrays being built; ms is the measurements array.
OverflowMove(st, ms, index, over) ==
    LET table == st.tables[index + 1]
        measurement == st.heap[ms[index + 1]]
        rows == table.rows
        rowsToMove == SubSeq(rows, Len(rows) - over.count + 1, Len(rows))
        adjusted ==
            [rowHeights |-> SliceEnd(measurement.rowHeights, over.count),
             headerRowCount |-> 0,
             totalHeight |->
                 Minus(measurement.totalHeight, over.totalSpaceTaken),
             breakPoints |-> measurement.breakPoints,
             cumulativeHeights |->
                 SliceEnd(measurement.cumulativeHeights, over.count)]
        heap1 == Append(st.heap, adjusted)
        pushed ==
            [st EXCEPT
                !.heap = heap1,
                !.optimisedTables =
                    Append(@, Table(SliceEnd(rows, over.count),
                                    table.headerRows, table.groupId)),
                !.optimisedMeasurements = Append(@, Len(heap1))]
    IN  IF index + 2 <= Len(st.tables)
        THEN LET nextTable == st.tables[index + 2]
                 next == ms[index + 2]
             IN  [pushed EXCEPT
                     !.tables[index + 2] =
                         Table(rowsToMove \o nextTable.rows,
                               nextTable.headerRows, nextTable.groupId),
                     !.heap[next].rowHeights =
                         over.movedRowMeasurements \o @,
                     !.heap[next].totalHeight =
                         Plus(@, over.totalSpaceTaken)]
        ELSE [pushed EXCEPT
                 !.heap = Append(@,
                     [measurement EXCEPT
                         !.rowHeights = over.movedRowMeasurements,
                         !.totalHeight = NumSum(over.movedRowMeasurements)]),
                 !.optimisedTables =
                     Append(@, Table(rowsToMove, table.headerRows,
                                     table.groupId)),
                 !.optimisedMeasurements = Append(@, Len(heap1) + 1)]

\* UnderflowMove that leaves the rows it pulled in the next table too.
UnderflowMoveKeepsNextRows(st, ms, index, table, under) ==
    [st EXCEPT
        !.optimisedTables =
            Append(@, Table(table.rows \o
                            Slice(st.tables[index + 2].rows, 0, under.count),
                            table.headerRows, table.groupId)),
        !.optimisedMeasurements = Append(@, ms[index + 1])]

\* "if (rowsToAdd)" of the underflow branch.
UnderflowMove(st, ms, index, table, under) ==
    LET measurement == st.heap[ms[index + 1]]
        nextTable == st.tables[index + 2]
        next == ms[index + 2]
        nextTableMeasurements == st.heap[next]
        rowsToAdd == under.count
        rowsToMove == Slice(nextTable.rows, 0, rowsToAdd)
        grown ==
            [nextTableMeasurements EXCEPT
                !.totalHeight =
                    Plus(measurement.totalHeight, under.totalSpaceTaken),
                !.rowHeights = Slice(measurement.rowHeights, 0, rowsToAdd),
                !.cumulativeHeights =
                    measurement.cumulativeHeights \o
                    Slice(nextTableMeasurements.cumulativeHeights, 0,
                          rowsToAdd)]
        heap1 == Append(st.heap, grown)
    IN  [st EXCEPT
            !.optimisedTables =
                Append(@, Table(table.rows \o rowsToMove, table.headerRows,
                                table.groupId)),
            !.optimisedMeasurements = Append(@, Len(heap1)),
            !.tables[index + 2] =
                Table(SliceFrom(nextTable.rows, rowsToAdd),
                      nextTable.headerRows, nextTable.groupId),
            !.heap = [heap1 EXCEPT
                         ![next].rowHeights = SliceFrom(@, rowsToAdd),
                         ![next].cumulativeHeights = SliceFrom(@, rowsToAdd),
                         ![next].totalHeight =
                             Minus(@, under.totalSpaceTaken)]]

\* The callback of tables.forEach((table, index) => { ... }).
OptimiseTable(st, ms, index, availableHeight, pageHeight) ==
    LET table == st.tables[index + 1]
        measurement == st.heap[ms[index + 1]]
        tableHeight == measurement.totalHeight
        availableSpace == IF index = 0 THEN availableHeight ELSE pageHeight
        hasNext == index + 2 <= Len(st.tables)
        over == OverflowLoop(measurement.rowHeights, Len(table.rows) - 1,
                             tableHeight, availableSpace, NoRowsMoved)
        overflows ==
            Greater(measurement.totalHeight, availableSpace) /\ over.count > 0
        st1 == IF overflows THEN OverflowMove(st, ms, index, over) ELSE st
        measurement1 == st1.heap[ms[index + 1]]
        under ==
            IF hasNext
            THEN UnderflowLoop(st1.heap[ms[index + 2]].rowHeights, 0,
                     Len(st1.tables[index + 2].rows),
                     Minus(availableSpace, measurement1.totalHeight),
                     NoRowsMoved)
            ELSE NoRowsMoved
        underflows ==
            /\ Less(measurement1.totalHeight, availableSpace)
            /\ hasNext
            /\ under.count > 0
        st2 == IF underflows
               THEN UnderflowMove(st1, ms, index, table, under) ELSE st1
        st3 == IF overflows \/ underflows THEN st2
               ELSE [st EXCEPT
                        !.optimisedTables = Append(@, table),
                        !.optimisedMeasurements = Append(@, ms[index + 1])]
    IN  [st3 EXCEPT
            !.visits = Append(@,
                [availableSpace |-> availableSpace,
                 table |-> table,
                 measurement |-> measurement,
                 hasNext |-> hasNext,
                 nextTable |-> IF hasNext THEN st.tables[index + 2]
                               ELSE NoTable,
                 nextMeasurement |-> IF hasNext THEN st.heap[ms[index + 2]]
                                     ELSE measurement,
                 rowsMovedOut |-> IF overflows THEN over.count ELSE 0,
                 rowsPulled |-> IF underflows THEN under.count ELSE 0,
                 nextTableAfter |-> IF hasNext THEN st3.tables[index + 2]
                                    ELSE NoTable,
                 pushed |-> SliceFrom(st3.optimisedTables,
                                      Len(st.optimisedTables)),
                 pushedMeasurements |->
                     Deref(st3.heap,
                           SliceFrom(st3.optimisedMeasurements,
                                     Len(st.optimisedMeasurements)))])]

RECURSIVE OptimiseLoop(_, _, _, _, _)
OptimiseLoop(st, ms, index, availableHeight, pageHeight) ==
    IF index >= Len(st.tables) THEN st
    ELSE OptimiseLoop(OptimiseTable(st, ms, index, availableHeight,
                                    pageHeight),
                      ms, index + 1, availableHeight, pageHeight)

\* optimiseTables(tables, measurements, schema, availableHeight, pageHeight):
\* in the result, tables and heap are the caller's array and the objects as
\* the call leaves them, optimisedTables and optimisedMeasurements what it
\* returns; visits records, for each run of the callback, what it found and
\* what it did.
optimiseTables(tables, ms, objects, availableHeight, pageHeight) ==
    OptimiseLoop([tables |-> tables, heap |-> objects,
                  optimisedTables |-> <<>>, optimisedMeasurements |-> <<>>,
                  visits |-> <<>>],
                 ms, 0, availableHeight, pageHeight)

---------------------------------------------------------------------------
(* The calls a caller makes on the singleton, one after another. *)

\* The table nodes of the document that the caller may measure.
HandlerNodes ==
    {Table([i \in 1..n |-> i], 0, -1) : n \in 0..MaxHandlerRows}

\* A measurement in which every height is a number.
IsNumeric(m) ==
    /\ m.totalHeight # NaN
    /\ \A i \in DOMAIN m.rowHeights : m.rowHeights[i] # NaN
    /\ \A i \in DOMAIN m.cumulativeHeights : m.cumulativeHeights[i] # NaN

HandlerCall(op, threw, availableHeight, pageHeight) ==
    [op |-> op, threw |-> threw, tables |-> hTables,
     measurements |-> Deref(heap, hMeasurements),
     availableHeight |-> availableHeight, pageHeight |-> pageHeight,
     visits |-> <<>>]

\* measureTable(node, pos, view) on a table of the document or on one of
\* the caller's fragments; the view renders each row with a height of its
\* own choosing, or has no DOM node for the table.  The caller pushes the
\* table and its measurement on arrays of its own, or starts new arrays.
MeasureTableWithin(maxCalls) ==
    /\ sPc = "idle"
    /\ hCalls < maxCalls
    /\ \E node \in HandlerNodes \cup {hTables[i] : i \in DOMAIN hTables},
          domAvailable \in BOOLEAN, keep \in BOOLEAN :
        \E trs \in [1..Len(node.rows) -> 0..MaxRowHeight] :
            LET cacheKey == getTableCacheKey(node)
                cached == cacheKey \in DOMAIN measurementCache
                rowHeights == measureRowHeights(node.rows, domAvailable, trs)
                measurement ==
                    Measurement(rowHeights, getHeaderRowCount(node, sVariant))
                heap1 == IF cached THEN heap ELSE Append(heap, measurement)
                returned == IF cached THEN measurementCache[cacheKey]
                            ELSE Len(heap1)
                cache1 == IF ~cached /\ measurement.totalHeight > 0
                          THEN MapSet(measurementCache, cacheKey, returned)
                          ELSE measurementCache
                kept == keep /\ Len(hTables) < MaxGroup
                c == Compact(heap1, cache1,
                             IF kept THEN Append(hMeasurements, returned)
                             ELSE <<returned>>)
            IN  /\ domAvailable \/ \A i \in DOMAIN trs : trs[i] = 0
                /\ IF ~cached /\ ~domAvailable /\ node.rows = <<>>
                   THEN \* rows[0] is undefined: firstRow.type throws
                        /\ hLast' = HandlerCall("measureTable", TRUE, 0, 0)
                        /\ UNCHANGED <<heap, measurementCache, hTables,
                                       hMeasurements, hGroup>>
                   ELSE /\ hLast' = HandlerCall("measureTable", FALSE, 0, 0)
                        /\ heap' = c.heap
                        /\ measurementCache' = c.cache
                        /\ hMeasurements' = c.ms
                        /\ hTables' = IF kept THEN Append(hTables, node)
                                      ELSE <<node>>
                        /\ hGroup' = -1
    /\ hCalls' = hCalls + 1
    /\ UNCHANGED <<splitVars, pageVars, keyVars, hArg>>

\* splitTableAtHeight(tableNode, availableHeight, measurement, schema,
\* pageHeight) on one of the caller's tables and its measurement.
SplitHeldTable ==
    /\ sPc = "idle"
    /\ hCalls < MaxCalls
    /\ \E i \in DOMAIN hTables, pageHeight \in 1..MaxPageHeight :
        \E availableHeight \in 0..pageHeight :
            LET args == [node |-> hTables[i],
                         availableHeight |-> availableHeight,
                         measurement |-> heap[hMeasurements[i]],
                         pageHeight |-> pageHeight]
            IN  /\ IsNumeric(args.measurement)
                /\ sInput' = args
                /\ sArgs' = args
                /\ hArg' = i
    /\ sPc' = "call"
    /\ UNCHANGED <<now, sVariant, sStack, sRet, tableGroups, pageVars,
                   keyVars, heap, measurementCache, hTables, hMeasurements,
                   hGroup, hCalls, hLast>>

\* The outermost invocation returns: the caller now holds the tables array
\* of the result, which is also the array of the TableGroup just stored,
\* and the measurements, which are new objects unless the table fitted and
\* the measurement passed in came back.
SplitHeldReturn ==
    /\ sPc = "done"
    /\ LET fitted == sInput.measurement.totalHeight <= sInput.availableHeight
           heap1 == IF fitted THEN heap ELSE heap \o sRet.measurements
           ms == IF fitted THEN <<hMeasurements[hArg]>>
                 ELSE [i \in DOMAIN sRet.measurements |-> Len(heap) + i]
           c == Compact(heap1, measurementCache, ms)
       IN  /\ heap' = c.heap
           /\ measurementCache' = c.cache
           /\ hMeasurements' = c.ms
           /\ hTables' = sRet.tables
           /\ hGroup' = IF fitted THEN -1 ELSE sRet.groupId
           /\ hLast' = [HandlerCall("splitTableAtHeight", FALSE,
                                    sInput.availableHeight,
                                    sInput.pageHeight)
                            EXCEPT !.tables = <<sInput.node>>,
                                   !.measurements = <<sInput.measurement>>]
    /\ sPc' = "idle"
    /\ sInput' = NoArgs
    /\ sArgs' = NoArgs
    /\ sRet' = NoResult
    /\ hArg' = 0
    /\ hCalls' = hCalls + 1
    /\ UNCHANGED <<now, sVariant, sStack, tableGroups, pageVars, keyVars>>

\* The recursion ran out of stack: the call throws a RangeError and the
\* caller keeps what it had.
SplitHeldThrow ==
    /\ sPc = "overflow"
    /\ hLast' = [HandlerCall("splitTableAtHeight", TRUE,
                             sInput.availableHeight, sInput.pageHeight)
                     EXCEPT !.tables = <<sInput.node>>,
                            !.measurements = <<sInput.measurement>>]
    /\ sPc' = "idle"
    /\ sInput' = NoArgs
    /\ sArgs' = NoArgs
    /\ sStack' = <<>>
    /\ sRet' = NoResult
    /\ hArg' = 0
    /\ hCalls' = hCalls + 1
    /\ UNCHANGED <<now, sVariant, tableGroups, pageVars, keyVars, heap,
                   measurementCache, hTables, hMeasurements, hGroup>>

\* optimiseTables(tables, measurements, schema, availableHeight,
\* pageHeight) on the caller's arrays; the caller goes on with the arrays
\* returned.
OptimiseTablesWithin(maxCalls) ==
    /\ sPc = "idle"
    /\ hCalls < maxCalls
    /\ \E pageHeight \in 1..MaxPageHeight :
        \E availableHeight \in 0..pageHeight :
            LET r == optimiseTables(hTables, hMeasurements, heap,
                                    availableHeight, pageHeight)
                c == Compact(r.heap, measurementCache,
                             r.optimisedMeasurements)
            IN  /\ heap' = c.heap
                /\ measurementCache' = c.cache
                /\ hMeasurements' = c.ms
                /\ hTables' = r.optimisedTables
                /\ tableGroups' =
                       IF hGroup \in DOMAIN tableGroups
                       THEN [tableGroups EXCEPT ![hGroup].tables = r.tables]
                       ELSE tableGroups
                /\ hLast' = [HandlerCall("optimiseTables", FALSE,
                                         availableHeight, pageHeight)
                                 EXCEPT !.visits = r.visits]
    /\ hGroup' = -1
    /\ hCalls' = hCalls + 1
    /\ UNCHANGED <<now, sPc, sVariant, sInput, sArgs, sStack, sRet,
                   pageVars, keyVars, hArg>>

MeasureTable == MeasureTableWithin(MaxCalls)

OptimiseTables == OptimiseTablesWithin(MaxCalls)

\* One of the two TableHandler classes, before any call.
HandlerInit ==
    /\ now = 0
    /\ sPc = "idle"
    /\ sVariant \in {1, 2}
    /\ sInput = NoArgs
    /\ sArgs = NoArgs
    /\ sStack = <<>>
    /\ sRet = NoResult
    /\ tableGroups = <<>>
    /\ PageIdle
    /\ KeyIdle
    /\ HandlerIdle

HandlerNext ==
    \/ MeasureTable
    \/ SplitHeldTable
    \/ SplitCall
    \/ SplitReturn
    \/ SplitHeldReturn
    \/ SplitHeldThrow
    \/ OptimiseTables
    \/ Tick

SpecHandler == HandlerInit /\ [][HandlerNext]_vars

\* A caller that measures tables and rebalances them without splitting
\* any: the same calls, more of them in a row.
RebalanceMeasure == MeasureTableWithin(MaxRebalanceCalls)

RebalanceOptimise == OptimiseTablesWithin(MaxRebalanceCalls)

RebalanceNext ==
    \/ RebalanceMeasure
    \/ RebalanceOptimise

SpecRebalance == HandlerInit /\ [][RebalanceNext]_vars

HandlerTypeOK ==
    /\ Len(hTables) = Len(hMeasurements)
    /\ \A i \in DOMAIN hMeasurements : hMeasurements[i] \in DOMAIN heap
    /\ \A k \in DOMAIN measurementCache : measurementCache[k] \in DOMAIN heap

---------------------------------------------------------------------------
(* Properties of the TableHandler. *)

\* The latest call was optimiseTables and has returned: hLast holds what
\* went in, hTables and hMeasurements what came out.
OptimiseReturned == hLast.op = "optimiseTables" /\ ~hLast.threw

\* C11 as stated: optimiseTables returns a fragment sequence no longer
\* than the fragment sequence it was given.
OptimiseNeverLonger ==
    OptimiseReturned => Len(hTables) <= Len(hLast.tables)

\* C11, amended: optimiseTables returns as many fragments as it was given,
\* or one more (the rows moved out of an overflowing last fragment).
OptimiseSameLengthOrOneMore ==
    OptimiseReturned =>
        /\ Len(hTables) >= Len(hLast.tables)
        /\ Len(hTables) <= Len(hLast.tables) + 1

\* A group of two fragments was rebalanced and came back as three.
OptimiseSameLengthOrOneMoreWitness ==
    /\ OptimiseReturned
    /\ Len(hLast.tables) = 2
    /\ Len(hTables) = 3

\* The invariant of a TableMeasurement: cumulativeHeights are the running
\* sums of rowHeights and totalHeight is the last of them, or 0.
MeasurementConsistent(m) ==
    /\ Len(m.cumulativeHeights) = Len(m.rowHeights)
    /\ \A i \in DOMAIN m.rowHeights :
           /\ m.rowHeights[i] # NaN
           /\ m.cumulativeHeights[i] = SumSeq(SubSeq(m.rowHeights, 1, i))
    /\ m.totalHeight = IF m.rowHeights = <<>> THEN 0
                       ELSE m.cumulativeHeights[Len(m.cumulativeHeights)]

\* The measurements the latest call returned: the one measureTable gave
\* (the caller pushed it last), or the whole array of a split or optimise.
ReturnedMeasurements ==
    IF hLast.op = "none" \/ hLast.threw THEN <<>>
    ELSE IF hLast.op = "measureTable"
    THEN <<heap[hMeasurements[Len(hMeasurements)]]>>
    ELSE Deref(heap, hMeasurements)

\* C12: every TableMeasurement returned by measureTable, splitTableAtHeight
\* and optimiseTables has cumulativeHeights as long as rowHeights and equal
\* to the running sums of rowHeights, and totalHeight equal to the last
\* cumulative height (0 when there are no rows).
ReturnedMeasurementsConsistent ==
    \A i \in DOMAIN ReturnedMeasurements :
        MeasurementConsistent(ReturnedMeasurements[i])

\* C13: after any sequence of measureTable, splitTableAtHeight and
\* optimiseTables calls, every entry of the measurement cache has
\* totalHeight > 0.
CachedMeasurementsPositive ==
    \A k \in DOMAIN measurementCache :
        Greater(heap[measurementCache[k]].totalHeight, 0)

---------------------------------------------------------------------------
(* Properties of the page builder (buildNewDocument, collectContentNodes,  *)
(* mapCursorPosition), read off the state a pass leaves behind.            *)

\* A pass has run: contentNodes, closedPages and doc are its entries, its
\* page heights and the document it built from passDoc.
PassDone == passes > 0

\* The heights the pass measured for its entries.
PassHeights == measureNodeHeights(contentNodes)

\* The nodes of the content stream of the pass, in order.
PassNodes == [i \in DOMAIN contentNodes |-> contentNodes[i].node]

\* The content height of page 0 as the pass resolved it.
PageZeroContentHeight ==
    pageContentHeight(getPageNodeAttributesByPageNum(passDoc, 0))

\* What each entry adds to currentHeight: Math.max(nodeHeight,
\* MIN_PARAGRAPH_HEIGHT).
EffectiveHeights ==
    [i \in DOMAIN PassHeights |-> Max(PassHeights[i], MIN_PARAGRAPH_HEIGHT)]

\* C14 as stated: when the measured heights of all entries sum to less
\* than the content height of page 0, the pass builds exactly one page
\* holding every entry in stream order, also when some measured heights are
\* below the minimum paragraph height.
SmallContentOnOnePage ==
    (PassDone /\ contentNodes # <<>>
        /\ SumSeq(PassHeights) < PageZeroContentHeight)
    => /\ Len(doc) = 1
       /\ doc[1].kids = PassNodes

\* C14, amended: when the effective heights max(measured, minimum) of the
\* entries, of which there is at least one, sum to less than the content
\* height of page 0, the pass builds exactly one page holding every entry
\* in stream order.
SmallEffectiveContentOnOnePage ==
    (PassDone /\ contentNodes # <<>>
        /\ SumSeq(EffectiveHeights) < PageZeroContentHeight)
    => /\ Len(doc) = 1
       /\ doc[1].kids = PassNodes

\* Two pages whose entries, one of them measured below the minimum, fit
\* page 0 together were made one page.
SmallEffectiveContentOnOnePageWitness ==
    /\ PassDone
    /\ Len(passDoc) = 2
    /\ Len(contentNodes) >= 2
    /\ \E i \in DOMAIN PassHeights : PassHeights[i] < MIN_PARAGRAPH_HEIGHT
    /\ SumSeq(EffectiveHeights) < PageZeroContentHeight
    /\ Len(doc) = 1

\* The entries whose old range [pos, pos + nodeSize] holds the old cursor.
EntriesAtCursor ==
    {i \in DOMAIN contentNodes :
        /\ contentNodes[i].pos <= oldCursorPos
        /\ oldCursorPos <= contentNodes[i].pos + NodeSize(contentNodes[i].node)}

\* C15: for an old cursor position inside a content entry, mapCursorPosition
\* returns the CursorMap value of that entry plus the cursor's distance from
\* the entry's original position, so that the cursor keeps its offset from
\* the start of its node.
CursorKeepsOffsetInNode ==
    (PassDone /\ EntriesAtCursor # {}) =>
        \E i \in EntriesAtCursor :
            newCursorPos =
                <<oldToNewPosMap[contentNodes[i].pos]
                  + (oldCursorPos - contentNodes[i].pos)>>

\* The height accumulated on each page of the pass when it was closed.
ClosedHeights ==
    [k \in DOMAIN closedPages |-> closedPages[k].currentHeight]

\* C16: the effective heights max(measured, minimum) of all entries sum to
\* the same as the heights accumulated on the pages built, each taken when
\* its page was closed.
HeightConserved ==
    PassDone => SumSeq(EffectiveHeights) = SumSeq(ClosedHeights)

\* A pass closed several pages and had an entry measured below the minimum.
HeightConservedWitness ==
    /\ PassDone
    /\ Len(closedPages) >= 2
    /\ \E i \in DOMAIN PassHeights : PassHeights[i] < MIN_PARAGRAPH_HEIGHT
    /\ \E k \in DOMAIN doc : Len(doc[k].kids) >= 2

\* C17: the children of the pages built, concatenated in page order, are
\* the entries of the content stream in their order, each once; no page
\* built is without children, and an empty stream gives no page.
PagesHoldTheStream ==
    PassDone =>
        /\ \A k \in DOMAIN doc : isPageNode(doc[k]) /\ doc[k].kids # <<>>
        /\ Flatten([k \in DOMAIN doc |-> doc[k].kids]) = PassNodes
        /\ contentNodes = <<>> => doc = <<>>

\* A stream of three or more entries was laid out on another number of
\* pages than it came from.
PagesHoldTheStreamWitness ==
    /\ PassDone
    /\ Len(contentNodes) >= 3
    /\ Len(doc) >= 2
    /\ Len(doc) # Len(passDoc)

\* C18: every page built holds exactly one entry, or entries whose
\* effective heights max(measured, minimum) sum to no more than the content
\* height of that page.
PagesWithinBudgetOrSingle ==
    PassDone =>
        \A k \in DOMAIN doc :
            \/ Len(doc[k].kids) = 1
            \/ closedPages[k].currentHeight <= closedPages[k].pageContentHeight

\* The height measureNodeHeights gives for a node.
MeasuredHeight(node) == measureNodeHeights(<<[node |-> node, pos |-> 0]>>)[1]

\* C19: packing is greedy first-fit: for consecutive pages k and k + 1 the
\* height accumulated on page k plus the measured height of the first entry
\* of page k + 1 is greater than the content height of page k.
PackingIsGreedy ==
    PassDone =>
        \A k \in DOMAIN doc :
            k + 1 \in DOMAIN doc =>
                closedPages[k].currentHeight + MeasuredHeight(doc[k + 1].kids[1])
                    > closedPages[k].pageContentHeight

\* A page of two entries was closed before an entry measured below the
\* minimum.
PackingIsGreedyWitness ==
    /\ PassDone
    /\ \E k \in DOMAIN doc :
        /\ k + 1 \in DOMAIN doc
        /\ Len(doc[k].kids) >= 2
        /\ MeasuredHeight(doc[k + 1].kids[1]) < MIN_PARAGRAPH_HEIGHT

RECURSIVE ContentStarts(_, _)
\* The content nodes of the top-level nodes d, the first of which starts at
\* start, each with the position at which it starts: the children of a page
\* follow its opening token, another node stands where it is.
ContentStarts(d, start) ==
    IF d = <<>> THEN <<>>
    ELSE (IF isPageNode(d[1])
          THEN [i \in DOMAIN d[1].kids |->
                   [node |-> d[1].kids[i],
                    pos |-> ChildStarts(d[1].kids, start + 1)[i]]]
          ELSE <<[node |-> d[1], pos |-> start]>>)
         \o ContentStarts(Tail(d), start + NodeSize(d[1]))

\* C20: every entry of collectContentNodes carries the position at which
\* its node starts in the document the pass found, for children of pages
\* and for top-level nodes that are not pages; the entries come in document
\* order, the pages unwrapped one level.
EntriesCarryNodeStart ==
    PassDone => contentNodes = ContentStarts(passDoc, 0)

---------------------------------------------------------------------------
(* Properties of optimiseTables, read off the call that has just returned: *)
(* hLast holds the arrays as they went in, hTables and hMeasurements the   *)
(* arrays that came back.                                                  *)

\* The rows of an array of tables, one after another.
RowsOf(tables) == Flatten([i \in DOMAIN tables |-> tables[i].rows])

\* C21: the rows of the fragments that optimiseTables returns, one after
\* another, are the rows of the fragments it was given, one after another:
\* no row is lost, doubled or out of place, for a group of any length.
OptimiseKeepsRows ==
    OptimiseReturned => RowsOf(hTables) = RowsOf(hLast.tables)

\* A group of three fragments was rebalanced and rows changed fragment.
OptimiseKeepsRowsWitness ==
    /\ OptimiseReturned
    /\ Len(hLast.tables) >= 3
    /\ RowsOf(hLast.tables) # <<>>
    /\ \E i \in DOMAIN hLast.tables :
           i \in DOMAIN hTables /\ hTables[i].rows # hLast.tables[i].rows

\* The measurement m describes the table: one height per row, each a
\* number, and totalHeight their sum.
Measures(m, table) ==
    /\ Len(m.rowHeights) = Len(table.rows)
    /\ \A i \in DOMAIN m.rowHeights : m.rowHeights[i] # NaN
    /\ m.totalHeight = NumSum(m.rowHeights)

\* optimiseTables was given, for each fragment, a measurement of it.
OptimiseGivenMeasured ==
    /\ OptimiseReturned
    /\ Len(hLast.measurements) = Len(hLast.tables)
    /\ \A i \in DOMAIN hLast.tables :
           Measures(hLast.measurements[i], hLast.tables[i])

\* The fragment of visit v was over its budget (line 633).
Overflowed(v) == Greater(v.measurement.totalHeight, v.availableSpace)

\* The height of the first n rows of the fragment of visit v.
HeightOfFirst(v, n) == NumSum(Slice(v.measurement.rowHeights, 0, n))

\* What C22 says of one visit that moved n rows out.
OverflowAsClaimed(k, v, n) ==
    LET kept == Len(v.table.rows) - n
        moved == SliceFrom(v.table.rows, kept)
    IN  /\ v.pushed # <<>>
        /\ v.pushed[1].rows = Slice(v.table.rows, 0, kept)
        /\ LessEq(v.pushedMeasurements[1].totalHeight, v.availableSpace)
        /\ LessEq(HeightOfFirst(v, kept), v.availableSpace)
        /\ \A j \in 0..(n - 1) :
               Greater(HeightOfFirst(v, Len(v.table.rows) - j),
                       v.availableSpace)
        /\ IF v.hasNext
           THEN v.nextTableAfter.rows = moved \o v.nextTable.rows
           ELSE /\ k = Len(hLast.visits)
                /\ Len(v.pushed) = 2
                /\ v.pushed[2].rows = moved
                /\ hTables[Len(hTables)] = v.pushed[2]

\* C22: when a fragment is over its budget (availableHeight for the first,
\* pageHeight for the others), the fragment returned in its place is at
\* most as high as the budget, the rows moved out are the shortest run of
\* its last rows for which that is so, and they stand in their order at the
\* front of the next fragment, or are a new last fragment when there is no
\* next one.
OverflowMovesShortestTrail ==
    OptimiseGivenMeasured =>
        \A k \in DOMAIN hLast.visits :
            Overflowed(hLast.visits[k]) =>
                OverflowAsClaimed(k, hLast.visits[k],
                                  hLast.visits[k].rowsMovedOut)

\* The fragment of visit v was under its budget and had a next fragment
\* (line 683).
Underflowed(v) ==
    Less(v.measurement.totalHeight, v.availableSpace) /\ v.hasNext

\* The height of the fragment of visit v with the first n rows of the next
\* fragment added.
HeightWithNext(v, n) ==
    Plus(v.measurement.totalHeight,
         NumSum(Slice(v.nextMeasurement.rowHeights, 0, n)))

\* C23: when a fragment is under its budget and has a next fragment, the
\* rows pulled from the front of the next fragment are the longest run of
\* its first rows with which the fragment is at most as high as its budget;
\* a first row as high as the space left is pulled.
UnderflowPullsLongestLead ==
    OptimiseGivenMeasured =>
        \A k \in DOMAIN hLast.visits :
            LET v == hLast.visits[k]
                n == v.rowsPulled
            IN  Underflowed(v) =>
                    /\ v.pushed[1].rows =
                           v.table.rows \o Slice(v.nextTable.rows, 0, n)
                    /\ v.nextTableAfter.rows = SliceFrom(v.nextTable.rows, n)
                    /\ LessEq(HeightWithNext(v, n), v.availableSpace)
                    /\ \/ n = Len(v.nextTable.rows)
                       \/ Greater(HeightWithNext(v, n + 1), v.availableSpace)

\* The latest call was splitTableAtHeight and has returned.
SplitHeldReturned == hLast.op = "splitTableAtHeight" /\ ~hLast.threw

\* Every table of the array has a row.
AllHaveRows(tables) == \A i \in DOMAIN tables : tables[i].rows # <<>>

\* C24: every fragment that splitTableAtHeight returns for a table with a
\* row, and every fragment that optimiseTables returns for fragments with
\* a row each, has at least one row, whatever the budget.
FragmentsHaveRows ==
    /\ SplitHeldReturned /\ AllHaveRows(hLast.tables) => AllHaveRows(hTables)
    /\ OptimiseGivenMeasured /\ AllHaveRows(hLast.tables) =>
           AllHaveRows(hTables)

\* The latest call was measureTable and has returned: the node and the
\* measurement are the last of the caller's arrays.
MeasureReturned ==
    hLast.op = "measureTable" /\ ~hLast.threw /\ hTables # <<>>

\* m has the rowHeights and the totalHeight of a measurement of the node
\* just made, for some heights that the view can render its rows with.
IsFreshMeasurement(m, node) ==
    \E trs \in [1..Len(node.rows) -> 0..MaxRowHeight] :
        /\ m.rowHeights = measureRowHeights(node.rows, TRUE, trs)
        /\ m.totalHeight = NumSum(m.rowHeights)

\* C25: whatever measureTable and optimiseTables calls came before, what
\* measureTable returns for a node has the rowHeights and the totalHeight
\* of a measurement of that node just made: handing a measurement that
\* measureTable returned to optimiseTables does not change what the cache
\* gives for the node afterwards.
MeasureReturnsFreshMeasurement ==
    MeasureReturned =>
        IsFreshMeasurement(heap[hMeasurements[Len(hMeasurements)]],
                           hTables[Len(hTables)])

---------------------------------------------------------------------------
(* Properties of the key handlers at the end of a page. *)

\* The position of the j-th child of the k-th page of d.
KidPos(d, k, j) == TopPos(d, k) + 1 + ContentSize(SubSeq(d[k].kids, 1, j - 1))

\* A cursor at pos.
Cursor(pos) == [from |-> pos, to |-> pos]

\* The latest call was made with a dispatch function and a cursor at the
\* end of the last child of page k of the document before the call, a
\* paragraph: the exact end of the page.
CursorAtEndOfPage(key, k) ==
    /\ lastCall.key = key
    /\ lastCall.hasDispatch
    /\ k \in DOMAIN lastCall.doc
    /\ isPageNode(lastCall.doc[k])
    /\ lastCall.doc[k].kids # <<>>
    /\ isParagraphNode(LastKid(lastCall.doc[k]))
    /\ lastCall.selection =
           Cursor(KidPos(lastCall.doc, k, Len(lastCall.doc[k].kids)) + 1
                  + Len(LastKid(lastCall.doc[k]).text))

BackspaceAtEndOfPageDeletesWitness ==
    /\ CursorAtEndOfPage("Backspace", 2)
    /\ Len(lastCall.doc[2].kids) = 2
    /\ LastKid(lastCall.doc[2]).text = <<>>
    /\ isParagraphNode(lastCall.doc[2].kids[1])
    /\ Len(doc[2].kids) = 1

\* The latest call was Delete with a cursor at the exact end of page k,
\* and page k + 1 begins with a paragraph.
DeleteAtBoundary(k) ==
    /\ CursorAtEndOfPage("Delete", k)
    /\ k + 1 \in DOMAIN lastCall.doc
    /\ isPageNode(lastCall.doc[k + 1])
    /\ lastCall.doc[k + 1].kids # <<>>
    /\ isParagraphNode(lastCall.doc[k + 1].kids[1])

\* What C27 says of the document after Delete at the end of page k.
DeleteMergedAt(k) ==
    LET before == lastCall.doc
        n == Len(before[k].kids)
        A == LastKid(before[k]).text
        B == before[k + 1].kids[1].text
    IN  /\ lastCall.returned = "true"
        /\ Len(doc) = Len(before)
        /\ Len(doc[k].kids) = n
        /\ \A j \in 1..(n - 1) : doc[k].kids[j] = before[k].kids[j]
        /\ isParagraphNode(LastKid(doc[k]))
        /\ LastKid(doc[k]).text = A \o B
        /\ doc[k + 1].kids = Tail(before[k + 1].kids)

\* C27: Delete at the exact end of a page that has a next page leaves the
\* current paragraph with its content followed by the content of the first
\* paragraph of the next page, and that paragraph is no longer in the next
\* page, be it empty or not.
DeleteMergesNextParagraph ==
    \A k \in 1..MaxKeyPages : DeleteAtBoundary(k) => DeleteMergedAt(k)

\* The selection is a cursor in a paragraph of the document that starts
\* after position pos.
CursorInTextBlockAfter(pos) ==
    /\ selection.from = selection.to
    /\ \E e \in ParagraphsAround(doc, selection.from) : e.pos > pos

\* C28: after Delete has merged across the boundary of pages k and k + 1,
\* the selection is in the next text block if the current and the next
\* paragraph were both empty, and otherwise at the merge point, where the
\* cursor was before the command.
DeleteSelectsByEmptiness ==
    \A k \in 1..MaxKeyPages :
        DeleteAtBoundary(k) /\ lastCall.returned = "true" =>
            IF /\ LastKid(lastCall.doc[k]).text = <<>>
               /\ lastCall.doc[k + 1].kids[1].text = <<>>
            THEN CursorInTextBlockAfter(
                     KidPos(lastCall.doc, k, Len(lastCall.doc[k].kids)))
            ELSE selection = lastCall.selection

\* The latest call was Backspace with a dispatch function and a cursor at
\* the very start of page k, which begins with a paragraph and has a page
\* before it.
BackspaceAtStartOfPageK(k) ==
    /\ lastCall.key = "Backspace"
    /\ lastCall.hasDispatch
    /\ k \in 2..Len(lastCall.doc)
    /\ lastCall.doc[k].kids # <<>>
    /\ isParagraphNode(lastCall.doc[k].kids[1])
    /\ lastCall.doc[k - 1].kids # <<>>
    /\ lastCall.selection = Cursor(TopPos(lastCall.doc, k) + 2)

\* The latest call was Delete with a cursor at the exact end of page k,
\* which has a page with children after it.
DeleteAtEndOfPageK(k) ==
    /\ CursorAtEndOfPage("Delete", k)
    /\ k + 1 \in DOMAIN lastCall.doc
    /\ lastCall.doc[k + 1].kids # <<>>

\* C29: a merge across a page boundary takes the paragraph from the page
\* next to the current one, its last child for Backspace and its first
\* child for Delete; when that child is no paragraph, no paragraph from
\* elsewhere is merged and the document stays as it was.
MergeTakesAdjacentChild ==
    \A k \in 1..MaxKeyPages :
        /\ BackspaceAtStartOfPageK(k) =>
               IF isParagraphNode(LastKid(lastCall.doc[k - 1]))
               THEN lastCall.returned = "true" =>
                        LastKid(doc[k - 1]).text =
                            LastKid(lastCall.doc[k - 1]).text
                            \o lastCall.doc[k].kids[1].text
               ELSE doc = lastCall.doc
        /\ DeleteAtEndOfPageK(k) =>
               IF isParagraphNode(lastCall.doc[k + 1].kids[1])
               THEN lastCall.returned = "true" =>
                        LastKid(doc[k]).text =
                            LastKid(lastCall.doc[k]).text
                            \o lastCall.doc[k + 1].kids[1].text
               ELSE doc = lastCall.doc

(***************************************************************************)
(* Properties of the cursor update that ends a pass.  The pass leaves the  *)
(* rebuilt document in doc and the mapped cursor in newCursorPos, and      *)
(* paginationUpdateCursorPosition is called with exactly these, so what    *)
(* the call does is a function of the state after the pass.                *)
(***************************************************************************)

\* What paginationUpdateCursorPosition does at the end of the latest pass.
CursorUpdate ==
    paginationUpdateCursorPosition(NewTransaction(doc, selection),
                                   newCursorPos)

\* Selection.atEnd of the rebuilt document.
SelectionAtEnd ==
    setSelectionAtEndOfDocument(NewTransaction(doc, selection)).selection

\* C30: mapCursorPosition returns null exactly when no content entry's
\* inclusive range holds the old cursor position; then, and when no
\* selection can be derived from the resolved position,
\* paginationUpdateCursorPosition sets the selection at the end of the
\* document; and in every pass exactly one selection is set on the
\* transaction.
CursorUpdateSetsOneSelection ==
    PassDone =>
        /\ (newCursorPos = <<>>) <=> (EntriesAtCursor = {})
        /\ ((newCursorPos = <<>>
                \/ (~CursorUpdate.threw /\ ~CursorUpdate.derived)) =>
               (/\ CursorUpdate.atEndOfDocument
                /\ CursorUpdate.selection = SelectionAtEnd))
        /\ ~CursorUpdate.threw
        /\ CursorUpdate.selectionsSet = 1

=============================================================================
